---- MODULE Spec2Model ----
(***************************************************************************)
(* A model of the WhatsApp options agent: the command parser               *)
(* (parser.py), the risk gate (risk_gate.py), the AngelOne client          *)
(* (angel_client.py) and the webhook handler (main.py).                    *)
(*                                                                         *)
(* Python strings are modelled as sequences of characters so that          *)
(* strip/upper, the regular expressions, startswith/endswith, int() and    *)
(* str() are computed character by character as the code does.  A          *)
(* printable ASCII character, the tab and the line feed are the            *)
(* one-character string; every other character is the string "U+" followed *)
(* by its code point in hexadecimal ("U+000D" is the carriage return,      *)
(* "U+0662" the Arabic-Indic digit two).                                   *)
(***************************************************************************)
EXTENDS Integers, Sequences, FiniteSets, TLC

(***************************************************************************)
(* Characters and Python string primitives                                 *)
(***************************************************************************)
LowerLetters == <<"a", "b", "c", "d", "e", "f", "g", "h", "i", "j", "k", "l", "m", "n", "o", "p", "q", "r", "s", "t", "u", "v", "w", "x", "y", "z">>
UpperLetters == <<"A", "B", "C", "D", "E", "F", "G", "H", "I", "J", "K", "L", "M", "N", "O", "P", "Q", "R", "S", "T", "U", "V", "W", "X", "Y", "Z">>
DigitChars == <<"0", "1", "2", "3", "4", "5", "6", "7", "8", "9">>

Range(s) == { s[i] : i \in DOMAIN s }

\* regex class [A-Z]
ClassAZ == Range(UpperLetters)
\* the decimal digits outside ASCII (Unicode category Nd): each row is one
\* script's digits zero to nine
DigitRows ==
    <<        <<"U+0660", "U+0661", "U+0662", "U+0663", "U+0664", "U+0665", "U+0666", "U+0667", "U+0668", "U+0669">>,
       <<"U+06F0", "U+06F1", "U+06F2", "U+06F3", "U+06F4", "U+06F5", "U+06F6", "U+06F7", "U+06F8", "U+06F9">>,
       <<"U+07C0", "U+07C1", "U+07C2", "U+07C3", "U+07C4", "U+07C5", "U+07C6", "U+07C7", "U+07C8", "U+07C9">>,
       <<"U+0966", "U+0967", "U+0968", "U+0969", "U+096A", "U+096B", "U+096C", "U+096D", "U+096E", "U+096F">>,
       <<"U+09E6", "U+09E7", "U+09E8", "U+09E9", "U+09EA", "U+09EB", "U+09EC", "U+09ED", "U+09EE", "U+09EF">>,
       <<"U+0A66", "U+0A67", "U+0A68", "U+0A69", "U+0A6A", "U+0A6B", "U+0A6C", "U+0A6D", "U+0A6E", "U+0A6F">>,
       <<"U+0AE6", "U+0AE7", "U+0AE8", "U+0AE9", "U+0AEA", "U+0AEB", "U+0AEC", "U+0AED", "U+0AEE", "U+0AEF">>,
       <<"U+0B66", "U+0B67", "U+0B68", "U+0B69", "U+0B6A", "U+0B6B", "U+0B6C", "U+0B6D", "U+0B6E", "U+0B6F">>,
       <<"U+0BE6", "U+0BE7", "U+0BE8", "U+0BE9", "U+0BEA", "U+0BEB", "U+0BEC", "U+0BED", "U+0BEE", "U+0BEF">>,
       <<"U+0C66", "U+0C67", "U+0C68", "U+0C69", "U+0C6A", "U+0C6B", "U+0C6C", "U+0C6D", "U+0C6E", "U+0C6F">>,
       <<"U+0CE6", "U+0CE7", "U+0CE8", "U+0CE9", "U+0CEA", "U+0CEB", "U+0CEC", "U+0CED", "U+0CEE", "U+0CEF">>,
       <<"U+0D66", "U+0D67", "U+0D68", "U+0D69", "U+0D6A", "U+0D6B", "U+0D6C", "U+0D6D", "U+0D6E", "U+0D6F">>,
       <<"U+0DE6", "U+0DE7", "U+0DE8", "U+0DE9", "U+0DEA", "U+0DEB", "U+0DEC", "U+0DED", "U+0DEE", "U+0DEF">>,
       <<"U+0E50", "U+0E51", "U+0E52", "U+0E53", "U+0E54", "U+0E55", "U+0E56", "U+0E57", "U+0E58", "U+0E59">>,
       <<"U+0ED0", "U+0ED1", "U+0ED2", "U+0ED3", "U+0ED4", "U+0ED5", "U+0ED6", "U+0ED7", "U+0ED8", "U+0ED9">>,
       <<"U+0F20", "U+0F21", "U+0F22", "U+0F23", "U+0F24", "U+0F25", "U+0F26", "U+0F27", "U+0F28", "U+0F29">>,
       <<"U+1040", "U+1041", "U+1042", "U+1043", "U+1044", "U+1045", "U+1046", "U+1047", "U+1048", "U+1049">>,
       <<"U+1090", "U+1091", "U+1092", "U+1093", "U+1094", "U+1095", "U+1096", "U+1097", "U+1098", "U+1099">>,
       <<"U+17E0", "U+17E1", "U+17E2", "U+17E3", "U+17E4", "U+17E5", "U+17E6", "U+17E7", "U+17E8", "U+17E9">>,
       <<"U+1810", "U+1811", "U+1812", "U+1813", "U+1814", "U+1815", "U+1816", "U+1817", "U+1818", "U+1819">>,
       <<"U+1946", "U+1947", "U+1948", "U+1949", "U+194A", "U+194B", "U+194C", "U+194D", "U+194E", "U+194F">>,
       <<"U+19D0", "U+19D1", "U+19D2", "U+19D3", "U+19D4", "U+19D5", "U+19D6", "U+19D7", "U+19D8", "U+19D9">>,
       <<"U+1A80", "U+1A81", "U+1A82", "U+1A83", "U+1A84", "U+1A85", "U+1A86", "U+1A87", "U+1A88", "U+1A89">>,
       <<"U+1A90", "U+1A91", "U+1A92", "U+1A93", "U+1A94", "U+1A95", "U+1A96", "U+1A97", "U+1A98", "U+1A99">>,
       <<"U+1B50", "U+1B51", "U+1B52", "U+1B53", "U+1B54", "U+1B55", "U+1B56", "U+1B57", "U+1B58", "U+1B59">>,
       <<"U+1BB0", "U+1BB1", "U+1BB2", "U+1BB3", "U+1BB4", "U+1BB5", "U+1BB6", "U+1BB7", "U+1BB8", "U+1BB9">>,
       <<"U+1C40", "U+1C41", "U+1C42", "U+1C43", "U+1C44", "U+1C45", "U+1C46", "U+1C47", "U+1C48", "U+1C49">>,
       <<"U+1C50", "U+1C51", "U+1C52", "U+1C53", "U+1C54", "U+1C55", "U+1C56", "U+1C57", "U+1C58", "U+1C59">>,
       <<"U+A620", "U+A621", "U+A622", "U+A623", "U+A624", "U+A625", "U+A626", "U+A627", "U+A628", "U+A629">>,
       <<"U+A8D0", "U+A8D1", "U+A8D2", "U+A8D3", "U+A8D4", "U+A8D5", "U+A8D6", "U+A8D7", "U+A8D8", "U+A8D9">>,
       <<"U+A900", "U+A901", "U+A902", "U+A903", "U+A904", "U+A905", "U+A906", "U+A907", "U+A908", "U+A909">>,
       <<"U+A9D0", "U+A9D1", "U+A9D2", "U+A9D3", "U+A9D4", "U+A9D5", "U+A9D6", "U+A9D7", "U+A9D8", "U+A9D9">>,
       <<"U+A9F0", "U+A9F1", "U+A9F2", "U+A9F3", "U+A9F4", "U+A9F5", "U+A9F6", "U+A9F7", "U+A9F8", "U+A9F9">>,
       <<"U+AA50", "U+AA51", "U+AA52", "U+AA53", "U+AA54", "U+AA55", "U+AA56", "U+AA57", "U+AA58", "U+AA59">>,
       <<"U+ABF0", "U+ABF1", "U+ABF2", "U+ABF3", "U+ABF4", "U+ABF5", "U+ABF6", "U+ABF7", "U+ABF8", "U+ABF9">>,
       <<"U+FF10", "U+FF11", "U+FF12", "U+FF13", "U+FF14", "U+FF15", "U+FF16", "U+FF17", "U+FF18", "U+FF19">>,
       <<"U+104A0", "U+104A1", "U+104A2", "U+104A3", "U+104A4", "U+104A5", "U+104A6", "U+104A7", "U+104A8", "U+104A9">>,
       <<"U+10D30", "U+10D31", "U+10D32", "U+10D33", "U+10D34", "U+10D35", "U+10D36", "U+10D37", "U+10D38", "U+10D39">>,
       <<"U+11066", "U+11067", "U+11068", "U+11069", "U+1106A", "U+1106B", "U+1106C", "U+1106D", "U+1106E", "U+1106F">>,
       <<"U+110F0", "U+110F1", "U+110F2", "U+110F3", "U+110F4", "U+110F5", "U+110F6", "U+110F7", "U+110F8", "U+110F9">>,
       <<"U+11136", "U+11137", "U+11138", "U+11139", "U+1113A", "U+1113B", "U+1113C", "U+1113D", "U+1113E", "U+1113F">>,
       <<"U+111D0", "U+111D1", "U+111D2", "U+111D3", "U+111D4", "U+111D5", "U+111D6", "U+111D7", "U+111D8", "U+111D9">>,
       <<"U+112F0", "U+112F1", "U+112F2", "U+112F3", "U+112F4", "U+112F5", "U+112F6", "U+112F7", "U+112F8", "U+112F9">>,
       <<"U+11450", "U+11451", "U+11452", "U+11453", "U+11454", "U+11455", "U+11456", "U+11457", "U+11458", "U+11459">>,
       <<"U+114D0", "U+114D1", "U+114D2", "U+114D3", "U+114D4", "U+114D5", "U+114D6", "U+114D7", "U+114D8", "U+114D9">>,
       <<"U+11650", "U+11651", "U+11652", "U+11653", "U+11654", "U+11655", "U+11656", "U+11657", "U+11658", "U+11659">>,
       <<"U+116C0", "U+116C1", "U+116C2", "U+116C3", "U+116C4", "U+116C5", "U+116C6", "U+116C7", "U+116C8", "U+116C9">>,
       <<"U+11730", "U+11731", "U+11732", "U+11733", "U+11734", "U+11735", "U+11736", "U+11737", "U+11738", "U+11739">>,
       <<"U+118E0", "U+118E1", "U+118E2", "U+118E3", "U+118E4", "U+118E5", "U+118E6", "U+118E7", "U+118E8", "U+118E9">>,
       <<"U+11950", "U+11951", "U+11952", "U+11953", "U+11954", "U+11955", "U+11956", "U+11957", "U+11958", "U+11959">>,
       <<"U+11C50", "U+11C51", "U+11C52", "U+11C53", "U+11C54", "U+11C55", "U+11C56", "U+11C57", "U+11C58", "U+11C59">>,
       <<"U+11D50", "U+11D51", "U+11D52", "U+11D53", "U+11D54", "U+11D55", "U+11D56", "U+11D57", "U+11D58", "U+11D59">>,
       <<"U+11DA0", "U+11DA1", "U+11DA2", "U+11DA3", "U+11DA4", "U+11DA5", "U+11DA6", "U+11DA7", "U+11DA8", "U+11DA9">>,
       <<"U+16A60", "U+16A61", "U+16A62", "U+16A63", "U+16A64", "U+16A65", "U+16A66", "U+16A67", "U+16A68", "U+16A69">>,
       <<"U+16AC0", "U+16AC1", "U+16AC2", "U+16AC3", "U+16AC4", "U+16AC5", "U+16AC6", "U+16AC7", "U+16AC8", "U+16AC9">>,
       <<"U+16B50", "U+16B51", "U+16B52", "U+16B53", "U+16B54", "U+16B55", "U+16B56", "U+16B57", "U+16B58", "U+16B59">>,
       <<"U+1D7CE", "U+1D7CF", "U+1D7D0", "U+1D7D1", "U+1D7D2", "U+1D7D3", "U+1D7D4", "U+1D7D5", "U+1D7D6", "U+1D7D7">>,
       <<"U+1D7D8", "U+1D7D9", "U+1D7DA", "U+1D7DB", "U+1D7DC", "U+1D7DD", "U+1D7DE", "U+1D7DF", "U+1D7E0", "U+1D7E1">>,
       <<"U+1D7E2", "U+1D7E3", "U+1D7E4", "U+1D7E5", "U+1D7E6", "U+1D7E7", "U+1D7E8", "U+1D7E9", "U+1D7EA", "U+1D7EB">>,
       <<"U+1D7EC", "U+1D7ED", "U+1D7EE", "U+1D7EF", "U+1D7F0", "U+1D7F1", "U+1D7F2", "U+1D7F3", "U+1D7F4", "U+1D7F5">>,
       <<"U+1D7F6", "U+1D7F7", "U+1D7F8", "U+1D7F9", "U+1D7FA", "U+1D7FB", "U+1D7FC", "U+1D7FD", "U+1D7FE", "U+1D7FF">>,
       <<"U+1E140", "U+1E141", "U+1E142", "U+1E143", "U+1E144", "U+1E145", "U+1E146", "U+1E147", "U+1E148", "U+1E149">>,
       <<"U+1E2F0", "U+1E2F1", "U+1E2F2", "U+1E2F3", "U+1E2F4", "U+1E2F5", "U+1E2F6", "U+1E2F7", "U+1E2F8", "U+1E2F9">>,
       <<"U+1E950", "U+1E951", "U+1E952", "U+1E953", "U+1E954", "U+1E955", "U+1E956", "U+1E957", "U+1E958", "U+1E959">>,
       <<"U+1FBF0", "U+1FBF1", "U+1FBF2", "U+1FBF3", "U+1FBF4", "U+1FBF5", "U+1FBF6", "U+1FBF7", "U+1FBF8", "U+1FBF9">> >>

\* regex class \d of a str pattern: every Unicode decimal digit
ClassDigit ==
    Range(DigitChars) \cup UNION { Range(DigitRows[r]) : r \in DOMAIN DigitRows }

\* regex class \s of a str pattern, which is also what str.strip() removes:
\* the characters for which str.isspace() holds
ClassSpace ==
    {       "\t", "\n", "U+000B", "U+000C", "U+000D", "U+001C", "U+001D", "U+001E",
      "U+001F", " ", "U+0085", "U+00A0", "U+1680", "U+2000", "U+2001",
      "U+2002", "U+2003", "U+2004", "U+2005", "U+2006", "U+2007", "U+2008",
      "U+2009", "U+200A", "U+2028", "U+2029", "U+202F", "U+205F", "U+3000" }

\* str.upper() of the characters outside ASCII that it changes: the
\* character and its upper case, which may be several characters
UpperPairs ==
    {       <<"U+00B5", <<"U+039C">>>>, <<"U+00DF", <<"S", "S">>>>,
      <<"U+00E0", <<"U+00C0">>>>, <<"U+00E1", <<"U+00C1">>>>,
      <<"U+00E2", <<"U+00C2">>>>, <<"U+00E3", <<"U+00C3">>>>,
      <<"U+00E4", <<"U+00C4">>>>, <<"U+00E5", <<"U+00C5">>>>,
      <<"U+00E6", <<"U+00C6">>>>, <<"U+00E7", <<"U+00C7">>>>,
      <<"U+00E8", <<"U+00C8">>>>, <<"U+00E9", <<"U+00C9">>>>,
      <<"U+00EA", <<"U+00CA">>>>, <<"U+00EB", <<"U+00CB">>>>,
      <<"U+00EC", <<"U+00CC">>>>, <<"U+00ED", <<"U+00CD">>>>,
      <<"U+00EE", <<"U+00CE">>>>, <<"U+00EF", <<"U+00CF">>>>,
      <<"U+00F0", <<"U+00D0">>>>, <<"U+00F1", <<"U+00D1">>>>,
      <<"U+00F2", <<"U+00D2">>>>, <<"U+00F3", <<"U+00D3">>>>,
      <<"U+00F4", <<"U+00D4">>>>, <<"U+00F5", <<"U+00D5">>>>,
      <<"U+00F6", <<"U+00D6">>>>, <<"U+00F8", <<"U+00D8">>>>,
      <<"U+00F9", <<"U+00D9">>>>, <<"U+00FA", <<"U+00DA">>>>,
      <<"U+00FB", <<"U+00DB">>>>, <<"U+00FC", <<"U+00DC">>>>,
      <<"U+00FD", <<"U+00DD">>>>, <<"U+00FE", <<"U+00DE">>>>,
      <<"U+00FF", <<"U+0178">>>>, <<"U+0101", <<"U+0100">>>>,
      <<"U+0103", <<"U+0102">>>>, <<"U+0105", <<"U+0104">>>>,
      <<"U+0107", <<"U+0106">>>>, <<"U+0109", <<"U+0108">>>>,
      <<"U+010B", <<"U+010A">>>>, <<"U+010D", <<"U+010C">>>>,
      <<"U+010F", <<"U+010E">>>>, <<"U+0111", <<"U+0110">>>>,
      <<"U+0113", <<"U+0112">>>>, <<"U+0115", <<"U+0114">>>>,
      <<"U+0117", <<"U+0116">>>>, <<"U+0119", <<"U+0118">>>>,
      <<"U+011B", <<"U+011A">>>>, <<"U+011D", <<"U+011C">>>>,
      <<"U+011F", <<"U+011E">>>>, <<"U+0121", <<"U+0120">>>>,
      <<"U+0123", <<"U+0122">>>>, <<"U+0125", <<"U+0124">>>>,
      <<"U+0127", <<"U+0126">>>>, <<"U+0129", <<"U+0128">>>>,
      <<"U+012B", <<"U+012A">>>>, <<"U+012D", <<"U+012C">>>>,
      <<"U+012F", <<"U+012E">>>>, <<"U+0131", <<"I">>>>,
      <<"U+0133", <<"U+0132">>>>, <<"U+0135", <<"U+0134">>>>,
      <<"U+0137", <<"U+0136">>>>, <<"U+013A", <<"U+0139">>>>,
      <<"U+013C", <<"U+013B">>>>, <<"U+013E", <<"U+013D">>>>,
      <<"U+0140", <<"U+013F">>>>, <<"U+0142", <<"U+0141">>>>,
      <<"U+0144", <<"U+0143">>>>, <<"U+0146", <<"U+0145">>>>,
      <<"U+0148", <<"U+0147">>>>, <<"U+0149", <<"U+02BC", "N">>>>,
      <<"U+014B", <<"U+014A">>>>, <<"U+014D", <<"U+014C">>>>,
      <<"U+014F", <<"U+014E">>>>, <<"U+0151", <<"U+0150">>>>,
      <<"U+0153", <<"U+0152">>>>, <<"U+0155", <<"U+0154">>>>,
      <<"U+0157", <<"U+0156">>>>, <<"U+0159", <<"U+0158">>>>,
      <<"U+015B", <<"U+015A">>>>, <<"U+015D", <<"U+015C">>>>,
      <<"U+015F", <<"U+015E">>>>, <<"U+0161", <<"U+0160">>>>,
      <<"U+0163", <<"U+0162">>>>, <<"U+0165", <<"U+0164">>>>,
      <<"U+0167", <<"U+0166">>>>, <<"U+0169", <<"U+0168">>>>,
      <<"U+016B", <<"U+016A">>>>, <<"U+016D", <<"U+016C">>>>,
      <<"U+016F", <<"U+016E">>>>, <<"U+0171", <<"U+0170">>>>,
      <<"U+0173", <<"U+0172">>>>, <<"U+0175", <<"U+0174">>>>,
      <<"U+0177", <<"U+0176">>>>, <<"U+017A", <<"U+0179">>>>,
      <<"U+017C", <<"U+017B">>>>, <<"U+017E", <<"U+017D">>>>,
      <<"U+017F", <<"S">>>>, <<"U+0180", <<"U+0243">>>>,
      <<"U+0183", <<"U+0182">>>>, <<"U+0185", <<"U+0184">>>>,
      <<"U+0188", <<"U+0187">>>>, <<"U+018C", <<"U+018B">>>>,
      <<"U+0192", <<"U+0191">>>>, <<"U+0195", <<"U+01F6">>>>,
      <<"U+0199", <<"U+0198">>>>, <<"U+019A", <<"U+023D">>>>,
      <<"U+019E", <<"U+0220">>>>, <<"U+01A1", <<"U+01A0">>>>,
      <<"U+01A3", <<"U+01A2">>>>, <<"U+01A5", <<"U+01A4">>>>,
      <<"U+01A8", <<"U+01A7">>>>, <<"U+01AD", <<"U+01AC">>>>,
      <<"U+01B0", <<"U+01AF">>>>, <<"U+01B4", <<"U+01B3">>>>,
      <<"U+01B6", <<"U+01B5">>>>, <<"U+01B9", <<"U+01B8">>>>,
      <<"U+01BD", <<"U+01BC">>>>, <<"U+01BF", <<"U+01F7">>>>,
      <<"U+01C5", <<"U+01C4">>>>, <<"U+01C6", <<"U+01C4">>>>,
      <<"U+01C8", <<"U+01C7">>>>, <<"U+01C9", <<"U+01C7">>>>,
      <<"U+01CB", <<"U+01CA">>>>, <<"U+01CC", <<"U+01CA">>>>,
      <<"U+01CE", <<"U+01CD">>>>, <<"U+01D0", <<"U+01CF">>>>,
      <<"U+01D2", <<"U+01D1">>>>, <<"U+01D4", <<"U+01D3">>>>,
      <<"U+01D6", <<"U+01D5">>>>, <<"U+01D8", <<"U+01D7">>>>,
      <<"U+01DA", <<"U+01D9">>>>, <<"U+01DC", <<"U+01DB">>>>,
      <<"U+01DD", <<"U+018E">>>>, <<"U+01DF", <<"U+01DE">>>>,
      <<"U+01E1", <<"U+01E0">>>>, <<"U+01E3", <<"U+01E2">>>>,
      <<"U+01E5", <<"U+01E4">>>>, <<"U+01E7", <<"U+01E6">>>>,
      <<"U+01E9", <<"U+01E8">>>>, <<"U+01EB", <<"U+01EA">>>>,
      <<"U+01ED", <<"U+01EC">>>>, <<"U+01EF", <<"U+01EE">>>>,
      <<"U+01F0", <<"J", "U+030C">>>>, <<"U+01F2", <<"U+01F1">>>>,
      <<"U+01F3", <<"U+01F1">>>>, <<"U+01F5", <<"U+01F4">>>>,
      <<"U+01F9", <<"U+01F8">>>>, <<"U+01FB", <<"U+01FA">>>>,
      <<"U+01FD", <<"U+01FC">>>>, <<"U+01FF", <<"U+01FE">>>>,
      <<"U+0201", <<"U+0200">>>>, <<"U+0203", <<"U+0202">>>>,
      <<"U+0205", <<"U+0204">>>>, <<"U+0207", <<"U+0206">>>>,
      <<"U+0209", <<"U+0208">>>>, <<"U+020B", <<"U+020A">>>>,
      <<"U+020D", <<"U+020C">>>>, <<"U+020F", <<"U+020E">>>>,
      <<"U+0211", <<"U+0210">>>>, <<"U+0213", <<"U+0212">>>>,
      <<"U+0215", <<"U+0214">>>>, <<"U+0217", <<"U+0216">>>>,
      <<"U+0219", <<"U+0218">>>>, <<"U+021B", <<"U+021A">>>>,
      <<"U+021D", <<"U+021C">>>>, <<"U+021F", <<"U+021E">>>>,
      <<"U+0223", <<"U+0222">>>>, <<"U+0225", <<"U+0224">>>>,
      <<"U+0227", <<"U+0226">>>>, <<"U+0229", <<"U+0228">>>>,
      <<"U+022B", <<"U+022A">>>>, <<"U+022D", <<"U+022C">>>>,
      <<"U+022F", <<"U+022E">>>>, <<"U+0231", <<"U+0230">>>>,
      <<"U+0233", <<"U+0232">>>>, <<"U+023C", <<"U+023B">>>>,
      <<"U+023F", <<"U+2C7E">>>>, <<"U+0240", <<"U+2C7F">>>>,
      <<"U+0242", <<"U+0241">>>>, <<"U+0247", <<"U+0246">>>>,
      <<"U+0249", <<"U+0248">>>>, <<"U+024B", <<"U+024A">>>>,
      <<"U+024D", <<"U+024C">>>>, <<"U+024F", <<"U+024E">>>>,
      <<"U+0250", <<"U+2C6F">>>>, <<"U+0251", <<"U+2C6D">>>>,
      <<"U+0252", <<"U+2C70">>>>, <<"U+0253", <<"U+0181">>>>,
      <<"U+0254", <<"U+0186">>>>, <<"U+0256", <<"U+0189">>>>,
      <<"U+0257", <<"U+018A">>>>, <<"U+0259", <<"U+018F">>>>,
      <<"U+025B", <<"U+0190">>>>, <<"U+025C", <<"U+A7AB">>>>,
      <<"U+0260", <<"U+0193">>>>, <<"U+0261", <<"U+A7AC">>>>,
      <<"U+0263", <<"U+0194">>>>, <<"U+0265", <<"U+A78D">>>>,
      <<"U+0266", <<"U+A7AA">>>>, <<"U+0268", <<"U+0197">>>>,
      <<"U+0269", <<"U+0196">>>>, <<"U+026A", <<"U+A7AE">>>>,
      <<"U+026B", <<"U+2C62">>>>, <<"U+026C", <<"U+A7AD">>>>,
      <<"U+026F", <<"U+019C">>>>, <<"U+0271", <<"U+2C6E">>>>,
      <<"U+0272", <<"U+019D">>>>, <<"U+0275", <<"U+019F">>>>,
      <<"U+027D", <<"U+2C64">>>>, <<"U+0280", <<"U+01A6">>>>,
      <<"U+0282", <<"U+A7C5">>>>, <<"U+0283", <<"U+01A9">>>>,
      <<"U+0287", <<"U+A7B1">>>>, <<"U+0288", <<"U+01AE">>>>,
      <<"U+0289", <<"U+0244">>>>, <<"U+028A", <<"U+01B1">>>>,
      <<"U+028B", <<"U+01B2">>>>, <<"U+028C", <<"U+0245">>>>,
      <<"U+0292", <<"U+01B7">>>>, <<"U+029D", <<"U+A7B2">>>>,
      <<"U+029E", <<"U+A7B0">>>>, <<"U+0345", <<"U+0399">>>>,
      <<"U+0371", <<"U+0370">>>>, <<"U+0373", <<"U+0372">>>>,
      <<"U+0377", <<"U+0376">>>>, <<"U+037B", <<"U+03FD">>>>,
      <<"U+037C", <<"U+03FE">>>>, <<"U+037D", <<"U+03FF">>>>,
      <<"U+0390", <<"U+0399", "U+0308", "U+0301">>>>,
      <<"U+03AC", <<"U+0386">>>>, <<"U+03AD", <<"U+0388">>>>,
      <<"U+03AE", <<"U+0389">>>>, <<"U+03AF", <<"U+038A">>>>,
      <<"U+03B0", <<"U+03A5", "U+0308", "U+0301">>>>,
      <<"U+03B1", <<"U+0391">>>>, <<"U+03B2", <<"U+0392">>>>,
      <<"U+03B3", <<"U+0393">>>>, <<"U+03B4", <<"U+0394">>>>,
      <<"U+03B5", <<"U+0395">>>>, <<"U+03B6", <<"U+0396">>>>,
      <<"U+03B7", <<"U+0397">>>>, <<"U+03B8", <<"U+0398">>>>,
      <<"U+03B9", <<"U+0399">>>>, <<"U+03BA", <<"U+039A">>>>,
      <<"U+03BB", <<"U+039B">>>>, <<"U+03BC", <<"U+039C">>>>,
      <<"U+03BD", <<"U+039D">>>>, <<"U+03BE", <<"U+039E">>>>,
      <<"U+03BF", <<"U+039F">>>>, <<"U+03C0", <<"U+03A0">>>>,
      <<"U+03C1", <<"U+03A1">>>>, <<"U+03C2", <<"U+03A3">>>>,
      <<"U+03C3", <<"U+03A3">>>>, <<"U+03C4", <<"U+03A4">>>>,
      <<"U+03C5", <<"U+03A5">>>>, <<"U+03C6", <<"U+03A6">>>>,
      <<"U+03C7", <<"U+03A7">>>>, <<"U+03C8", <<"U+03A8">>>>,
      <<"U+03C9", <<"U+03A9">>>>, <<"U+03CA", <<"U+03AA">>>>,
      <<"U+03CB", <<"U+03AB">>>>, <<"U+03CC", <<"U+038C">>>>,
      <<"U+03CD", <<"U+038E">>>>, <<"U+03CE", <<"U+038F">>>>,
      <<"U+03D0", <<"U+0392">>>>, <<"U+03D1", <<"U+0398">>>>,
      <<"U+03D5", <<"U+03A6">>>>, <<"U+03D6", <<"U+03A0">>>>,
      <<"U+03D7", <<"U+03CF">>>>, <<"U+03D9", <<"U+03D8">>>>,
      <<"U+03DB", <<"U+03DA">>>>, <<"U+03DD", <<"U+03DC">>>>,
      <<"U+03DF", <<"U+03DE">>>>, <<"U+03E1", <<"U+03E0">>>>,
      <<"U+03E3", <<"U+03E2">>>>, <<"U+03E5", <<"U+03E4">>>>,
      <<"U+03E7", <<"U+03E6">>>>, <<"U+03E9", <<"U+03E8">>>>,
      <<"U+03EB", <<"U+03EA">>>>, <<"U+03ED", <<"U+03EC">>>>,
      <<"U+03EF", <<"U+03EE">>>>, <<"U+03F0", <<"U+039A">>>>,
      <<"U+03F1", <<"U+03A1">>>>, <<"U+03F2", <<"U+03F9">>>>,
      <<"U+03F3", <<"U+037F">>>>, <<"U+03F5", <<"U+0395">>>>,
      <<"U+03F8", <<"U+03F7">>>>, <<"U+03FB", <<"U+03FA">>>>,
      <<"U+0430", <<"U+0410">>>>, <<"U+0431", <<"U+0411">>>>,
      <<"U+0432", <<"U+0412">>>>, <<"U+0433", <<"U+0413">>>>,
      <<"U+0434", <<"U+0414">>>>, <<"U+0435", <<"U+0415">>>>,
      <<"U+0436", <<"U+0416">>>>, <<"U+0437", <<"U+0417">>>>,
      <<"U+0438", <<"U+0418">>>>, <<"U+0439", <<"U+0419">>>>,
      <<"U+043A", <<"U+041A">>>>, <<"U+043B", <<"U+041B">>>>,
      <<"U+043C", <<"U+041C">>>>, <<"U+043D", <<"U+041D">>>>,
      <<"U+043E", <<"U+041E">>>>, <<"U+043F", <<"U+041F">>>>,
      <<"U+0440", <<"U+0420">>>>, <<"U+0441", <<"U+0421">>>>,
      <<"U+0442", <<"U+0422">>>>, <<"U+0443", <<"U+0423">>>>,
      <<"U+0444", <<"U+0424">>>>, <<"U+0445", <<"U+0425">>>>,
      <<"U+0446", <<"U+0426">>>>, <<"U+0447", <<"U+0427">>>>,
      <<"U+0448", <<"U+0428">>>>, <<"U+0449", <<"U+0429">>>>,
      <<"U+044A", <<"U+042A">>>>, <<"U+044B", <<"U+042B">>>>,
      <<"U+044C", <<"U+042C">>>>, <<"U+044D", <<"U+042D">>>>,
      <<"U+044E", <<"U+042E">>>>, <<"U+044F", <<"U+042F">>>>,
      <<"U+0450", <<"U+0400">>>>, <<"U+0451", <<"U+0401">>>>,
      <<"U+0452", <<"U+0402">>>>, <<"U+0453", <<"U+0403">>>>,
      <<"U+0454", <<"U+0404">>>>, <<"U+0455", <<"U+0405">>>>,
      <<"U+0456", <<"U+0406">>>>, <<"U+0457", <<"U+0407">>>>,
      <<"U+0458", <<"U+0408">>>>, <<"U+0459", <<"U+0409">>>>,
      <<"U+045A", <<"U+040A">>>>, <<"U+045B", <<"U+040B">>>>,
      <<"U+045C", <<"U+040C">>>>, <<"U+045D", <<"U+040D">>>>,
      <<"U+045E", <<"U+040E">>>>, <<"U+045F", <<"U+040F">>>>,
      <<"U+0461", <<"U+0460">>>>, <<"U+0463", <<"U+0462">>>>,
      <<"U+0465", <<"U+0464">>>>, <<"U+0467", <<"U+0466">>>>,
      <<"U+0469", <<"U+0468">>>>, <<"U+046B", <<"U+046A">>>>,
      <<"U+046D", <<"U+046C">>>>, <<"U+046F", <<"U+046E">>>>,
      <<"U+0471", <<"U+0470">>>>, <<"U+0473", <<"U+0472">>>>,
      <<"U+0475", <<"U+0474">>>>, <<"U+0477", <<"U+0476">>>>,
      <<"U+0479", <<"U+0478">>>>, <<"U+047B", <<"U+047A">>>>,
      <<"U+047D", <<"U+047C">>>>, <<"U+047F", <<"U+047E">>>>,
      <<"U+0481", <<"U+0480">>>>, <<"U+048B", <<"U+048A">>>>,
      <<"U+048D", <<"U+048C">>>>, <<"U+048F", <<"U+048E">>>>,
      <<"U+0491", <<"U+0490">>>>, <<"U+0493", <<"U+0492">>>>,
      <<"U+0495", <<"U+0494">>>>, <<"U+0497", <<"U+0496">>>>,
      <<"U+0499", <<"U+0498">>>>, <<"U+049B", <<"U+049A">>>>,
      <<"U+049D", <<"U+049C">>>>, <<"U+049F", <<"U+049E">>>>,
      <<"U+04A1", <<"U+04A0">>>>, <<"U+04A3", <<"U+04A2">>>>,
      <<"U+04A5", <<"U+04A4">>>>, <<"U+04A7", <<"U+04A6">>>>,
      <<"U+04A9", <<"U+04A8">>>>, <<"U+04AB", <<"U+04AA">>>>,
      <<"U+04AD", <<"U+04AC">>>>, <<"U+04AF", <<"U+04AE">>>>,
      <<"U+04B1", <<"U+04B0">>>>, <<"U+04B3", <<"U+04B2">>>>,
      <<"U+04B5", <<"U+04B4">>>>, <<"U+04B7", <<"U+04B6">>>>,
      <<"U+04B9", <<"U+04B8">>>>, <<"U+04BB", <<"U+04BA">>>>,
      <<"U+04BD", <<"U+04BC">>>>, <<"U+04BF", <<"U+04BE">>>>,
      <<"U+04C2", <<"U+04C1">>>>, <<"U+04C4", <<"U+04C3">>>>,
      <<"U+04C6", <<"U+04C5">>>>, <<"U+04C8", <<"U+04C7">>>>,
      <<"U+04CA", <<"U+04C9">>>>, <<"U+04CC", <<"U+04CB">>>>,
      <<"U+04CE", <<"U+04CD">>>>, <<"U+04CF", <<"U+04C0">>>>,
      <<"U+04D1", <<"U+04D0">>>>, <<"U+04D3", <<"U+04D2">>>>,
      <<"U+04D5", <<"U+04D4">>>>, <<"U+04D7", <<"U+04D6">>>>,
      <<"U+04D9", <<"U+04D8">>>>, <<"U+04DB", <<"U+04DA">>>>,
      <<"U+04DD", <<"U+04DC">>>>, <<"U+04DF", <<"U+04DE">>>>,
      <<"U+04E1", <<"U+04E0">>>>, <<"U+04E3", <<"U+04E2">>>>,
      <<"U+04E5", <<"U+04E4">>>>, <<"U+04E7", <<"U+04E6">>>>,
      <<"U+04E9", <<"U+04E8">>>>, <<"U+04EB", <<"U+04EA">>>>,
      <<"U+04ED", <<"U+04EC">>>>, <<"U+04EF", <<"U+04EE">>>>,
      <<"U+04F1", <<"U+04F0">>>>, <<"U+04F3", <<"U+04F2">>>>,
      <<"U+04F5", <<"U+04F4">>>>, <<"U+04F7", <<"U+04F6">>>>,
      <<"U+04F9", <<"U+04F8">>>>, <<"U+04FB", <<"U+04FA">>>>,
      <<"U+04FD", <<"U+04FC">>>>, <<"U+04FF", <<"U+04FE">>>>,
      <<"U+0501", <<"U+0500">>>>, <<"U+0503", <<"U+0502">>>>,
      <<"U+0505", <<"U+0504">>>>, <<"U+0507", <<"U+0506">>>>,
      <<"U+0509", <<"U+0508">>>>, <<"U+050B", <<"U+050A">>>>,
      <<"U+050D", <<"U+050C">>>>, <<"U+050F", <<"U+050E">>>>,
      <<"U+0511", <<"U+0510">>>>, <<"U+0513", <<"U+0512">>>>,
      <<"U+0515", <<"U+0514">>>>, <<"U+0517", <<"U+0516">>>>,
      <<"U+0519", <<"U+0518">>>>, <<"U+051B", <<"U+051A">>>>,
      <<"U+051D", <<"U+051C">>>>, <<"U+051F", <<"U+051E">>>>,
      <<"U+0521", <<"U+0520">>>>, <<"U+0523", <<"U+0522">>>>,
      <<"U+0525", <<"U+0524">>>>, <<"U+0527", <<"U+0526">>>>,
      <<"U+0529", <<"U+0528">>>>, <<"U+052B", <<"U+052A">>>>,
      <<"U+052D", <<"U+052C">>>>, <<"U+052F", <<"U+052E">>>>,
      <<"U+0561", <<"U+0531">>>>, <<"U+0562", <<"U+0532">>>>,
      <<"U+0563", <<"U+0533">>>>, <<"U+0564", <<"U+0534">>>>,
      <<"U+0565", <<"U+0535">>>>, <<"U+0566", <<"U+0536">>>>,
      <<"U+0567", <<"U+0537">>>>, <<"U+0568", <<"U+0538">>>>,
      <<"U+0569", <<"U+0539">>>>, <<"U+056A", <<"U+053A">>>>,
      <<"U+056B", <<"U+053B">>>>, <<"U+056C", <<"U+053C">>>>,
      <<"U+056D", <<"U+053D">>>>, <<"U+056E", <<"U+053E">>>>,
      <<"U+056F", <<"U+053F">>>>, <<"U+0570", <<"U+0540">>>>,
      <<"U+0571", <<"U+0541">>>>, <<"U+0572", <<"U+0542">>>>,
      <<"U+0573", <<"U+0543">>>>, <<"U+0574", <<"U+0544">>>>,
      <<"U+0575", <<"U+0545">>>>, <<"U+0576", <<"U+0546">>>>,
      <<"U+0577", <<"U+0547">>>>, <<"U+0578", <<"U+0548">>>>,
      <<"U+0579", <<"U+0549">>>>, <<"U+057A", <<"U+054A">>>>,
      <<"U+057B", <<"U+054B">>>>, <<"U+057C", <<"U+054C">>>>,
      <<"U+057D", <<"U+054D">>>>, <<"U+057E", <<"U+054E">>>>,
      <<"U+057F", <<"U+054F">>>>, <<"U+0580", <<"U+0550">>>>,
      <<"U+0581", <<"U+0551">>>>, <<"U+0582", <<"U+0552">>>>,
      <<"U+0583", <<"U+0553">>>>, <<"U+0584", <<"U+0554">>>>,
      <<"U+0585", <<"U+0555">>>>, <<"U+0586", <<"U+0556">>>>,
      <<"U+0587", <<"U+0535", "U+0552">>>>, <<"U+10D0", <<"U+1C90">>>>,
      <<"U+10D1", <<"U+1C91">>>>, <<"U+10D2", <<"U+1C92">>>>,
      <<"U+10D3", <<"U+1C93">>>>, <<"U+10D4", <<"U+1C94">>>>,
      <<"U+10D5", <<"U+1C95">>>>, <<"U+10D6", <<"U+1C96">>>>,
      <<"U+10D7", <<"U+1C97">>>>, <<"U+10D8", <<"U+1C98">>>>,
      <<"U+10D9", <<"U+1C99">>>>, <<"U+10DA", <<"U+1C9A">>>>,
      <<"U+10DB", <<"U+1C9B">>>>, <<"U+10DC", <<"U+1C9C">>>>,
      <<"U+10DD", <<"U+1C9D">>>>, <<"U+10DE", <<"U+1C9E">>>>,
      <<"U+10DF", <<"U+1C9F">>>>, <<"U+10E0", <<"U+1CA0">>>>,
      <<"U+10E1", <<"U+1CA1">>>>, <<"U+10E2", <<"U+1CA2">>>>,
      <<"U+10E3", <<"U+1CA3">>>>, <<"U+10E4", <<"U+1CA4">>>>,
      <<"U+10E5", <<"U+1CA5">>>>, <<"U+10E6", <<"U+1CA6">>>>,
      <<"U+10E7", <<"U+1CA7">>>>, <<"U+10E8", <<"U+1CA8">>>>,
      <<"U+10E9", <<"U+1CA9">>>>, <<"U+10EA", <<"U+1CAA">>>>,
      <<"U+10EB", <<"U+1CAB">>>>, <<"U+10EC", <<"U+1CAC">>>>,
      <<"U+10ED", <<"U+1CAD">>>>, <<"U+10EE", <<"U+1CAE">>>>,
      <<"U+10EF", <<"U+1CAF">>>>, <<"U+10F0", <<"U+1CB0">>>>,
      <<"U+10F1", <<"U+1CB1">>>>, <<"U+10F2", <<"U+1CB2">>>>,
      <<"U+10F3", <<"U+1CB3">>>>, <<"U+10F4", <<"U+1CB4">>>>,
      <<"U+10F5", <<"U+1CB5">>>>, <<"U+10F6", <<"U+1CB6">>>>,
      <<"U+10F7", <<"U+1CB7">>>>, <<"U+10F8", <<"U+1CB8">>>>,
      <<"U+10F9", <<"U+1CB9">>>>, <<"U+10FA", <<"U+1CBA">>>>,
      <<"U+10FD", <<"U+1CBD">>>>, <<"U+10FE", <<"U+1CBE">>>>,
      <<"U+10FF", <<"U+1CBF">>>>, <<"U+13F8", <<"U+13F0">>>>,
      <<"U+13F9", <<"U+13F1">>>>, <<"U+13FA", <<"U+13F2">>>>,
      <<"U+13FB", <<"U+13F3">>>>, <<"U+13FC", <<"U+13F4">>>>,
      <<"U+13FD", <<"U+13F5">>>>, <<"U+1C80", <<"U+0412">>>>,
      <<"U+1C81", <<"U+0414">>>>, <<"U+1C82", <<"U+041E">>>>,
      <<"U+1C83", <<"U+0421">>>>, <<"U+1C84", <<"U+0422">>>>,
      <<"U+1C85", <<"U+0422">>>>, <<"U+1C86", <<"U+042A">>>>,
      <<"U+1C87", <<"U+0462">>>>, <<"U+1C88", <<"U+A64A">>>>,
      <<"U+1D79", <<"U+A77D">>>>, <<"U+1D7D", <<"U+2C63">>>>,
      <<"U+1D8E", <<"U+A7C6">>>>, <<"U+1E01", <<"U+1E00">>>>,
      <<"U+1E03", <<"U+1E02">>>>, <<"U+1E05", <<"U+1E04">>>>,
      <<"U+1E07", <<"U+1E06">>>>, <<"U+1E09", <<"U+1E08">>>>,
      <<"U+1E0B", <<"U+1E0A">>>>, <<"U+1E0D", <<"U+1E0C">>>>,
      <<"U+1E0F", <<"U+1E0E">>>>, <<"U+1E11", <<"U+1E10">>>>,
      <<"U+1E13", <<"U+1E12">>>>, <<"U+1E15", <<"U+1E14">>>>,
      <<"U+1E17", <<"U+1E16">>>>, <<"U+1E19", <<"U+1E18">>>>,
      <<"U+1E1B", <<"U+1E1A">>>>, <<"U+1E1D", <<"U+1E1C">>>>,
      <<"U+1E1F", <<"U+1E1E">>>>, <<"U+1E21", <<"U+1E20">>>>,
      <<"U+1E23", <<"U+1E22">>>>, <<"U+1E25", <<"U+1E24">>>>,
      <<"U+1E27", <<"U+1E26">>>>, <<"U+1E29", <<"U+1E28">>>>,
      <<"U+1E2B", <<"U+1E2A">>>>, <<"U+1E2D", <<"U+1E2C">>>>,
      <<"U+1E2F", <<"U+1E2E">>>>, <<"U+1E31", <<"U+1E30">>>>,
      <<"U+1E33", <<"U+1E32">>>>, <<"U+1E35", <<"U+1E34">>>>,
      <<"U+1E37", <<"U+1E36">>>>, <<"U+1E39", <<"U+1E38">>>>,
      <<"U+1E3B", <<"U+1E3A">>>>, <<"U+1E3D", <<"U+1E3C">>>>,
      <<"U+1E3F", <<"U+1E3E">>>>, <<"U+1E41", <<"U+1E40">>>>,
      <<"U+1E43", <<"U+1E42">>>>, <<"U+1E45", <<"U+1E44">>>>,
      <<"U+1E47", <<"U+1E46">>>>, <<"U+1E49", <<"U+1E48">>>>,
      <<"U+1E4B", <<"U+1E4A">>>>, <<"U+1E4D", <<"U+1E4C">>>>,
      <<"U+1E4F", <<"U+1E4E">>>>, <<"U+1E51", <<"U+1E50">>>>,
      <<"U+1E53", <<"U+1E52">>>>, <<"U+1E55", <<"U+1E54">>>>,
      <<"U+1E57", <<"U+1E56">>>>, <<"U+1E59", <<"U+1E58">>>>,
      <<"U+1E5B", <<"U+1E5A">>>>, <<"U+1E5D", <<"U+1E5C">>>>,
      <<"U+1E5F", <<"U+1E5E">>>>, <<"U+1E61", <<"U+1E60">>>>,
      <<"U+1E63", <<"U+1E62">>>>, <<"U+1E65", <<"U+1E64">>>>,
      <<"U+1E67", <<"U+1E66">>>>, <<"U+1E69", <<"U+1E68">>>>,
      <<"U+1E6B", <<"U+1E6A">>>>, <<"U+1E6D", <<"U+1E6C">>>>,
      <<"U+1E6F", <<"U+1E6E">>>>, <<"U+1E71", <<"U+1E70">>>>,
      <<"U+1E73", <<"U+1E72">>>>, <<"U+1E75", <<"U+1E74">>>>,
      <<"U+1E77", <<"U+1E76">>>>, <<"U+1E79", <<"U+1E78">>>>,
      <<"U+1E7B", <<"U+1E7A">>>>, <<"U+1E7D", <<"U+1E7C">>>>,
      <<"U+1E7F", <<"U+1E7E">>>>, <<"U+1E81", <<"U+1E80">>>>,
      <<"U+1E83", <<"U+1E82">>>>, <<"U+1E85", <<"U+1E84">>>>,
      <<"U+1E87", <<"U+1E86">>>>, <<"U+1E89", <<"U+1E88">>>>,
      <<"U+1E8B", <<"U+1E8A">>>>, <<"U+1E8D", <<"U+1E8C">>>>,
      <<"U+1E8F", <<"U+1E8E">>>>, <<"U+1E91", <<"U+1E90">>>>,
      <<"U+1E93", <<"U+1E92">>>>, <<"U+1E95", <<"U+1E94">>>>,
      <<"U+1E96", <<"H", "U+0331">>>>, <<"U+1E97", <<"T", "U+0308">>>>,
      <<"U+1E98", <<"W", "U+030A">>>>, <<"U+1E99", <<"Y", "U+030A">>>>,
      <<"U+1E9A", <<"A", "U+02BE">>>>, <<"U+1E9B", <<"U+1E60">>>>,
      <<"U+1EA1", <<"U+1EA0">>>>, <<"U+1EA3", <<"U+1EA2">>>>,
      <<"U+1EA5", <<"U+1EA4">>>>, <<"U+1EA7", <<"U+1EA6">>>>,
      <<"U+1EA9", <<"U+1EA8">>>>, <<"U+1EAB", <<"U+1EAA">>>>,
      <<"U+1EAD", <<"U+1EAC">>>>, <<"U+1EAF", <<"U+1EAE">>>>,
      <<"U+1EB1", <<"U+1EB0">>>>, <<"U+1EB3", <<"U+1EB2">>>>,
      <<"U+1EB5", <<"U+1EB4">>>>, <<"U+1EB7", <<"U+1EB6">>>>,
      <<"U+1EB9", <<"U+1EB8">>>>, <<"U+1EBB", <<"U+1EBA">>>>,
      <<"U+1EBD", <<"U+1EBC">>>>, <<"U+1EBF", <<"U+1EBE">>>>,
      <<"U+1EC1", <<"U+1EC0">>>>, <<"U+1EC3", <<"U+1EC2">>>>,
      <<"U+1EC5", <<"U+1EC4">>>>, <<"U+1EC7", <<"U+1EC6">>>>,
      <<"U+1EC9", <<"U+1EC8">>>>, <<"U+1ECB", <<"U+1ECA">>>>,
      <<"U+1ECD", <<"U+1ECC">>>>, <<"U+1ECF", <<"U+1ECE">>>>,
      <<"U+1ED1", <<"U+1ED0">>>>, <<"U+1ED3", <<"U+1ED2">>>>,
      <<"U+1ED5", <<"U+1ED4">>>>, <<"U+1ED7", <<"U+1ED6">>>>,
      <<"U+1ED9", <<"U+1ED8">>>>, <<"U+1EDB", <<"U+1EDA">>>>,
      <<"U+1EDD", <<"U+1EDC">>>>, <<"U+1EDF", <<"U+1EDE">>>>,
      <<"U+1EE1", <<"U+1EE0">>>>, <<"U+1EE3", <<"U+1EE2">>>>,
      <<"U+1EE5", <<"U+1EE4">>>>, <<"U+1EE7", <<"U+1EE6">>>>,
      <<"U+1EE9", <<"U+1EE8">>>>, <<"U+1EEB", <<"U+1EEA">>>>,
      <<"U+1EED", <<"U+1EEC">>>>, <<"U+1EEF", <<"U+1EEE">>>>,
      <<"U+1EF1", <<"U+1EF0">>>>, <<"U+1EF3", <<"U+1EF2">>>>,
      <<"U+1EF5", <<"U+1EF4">>>>, <<"U+1EF7", <<"U+1EF6">>>>,
      <<"U+1EF9", <<"U+1EF8">>>>, <<"U+1EFB", <<"U+1EFA">>>>,
      <<"U+1EFD", <<"U+1EFC">>>>, <<"U+1EFF", <<"U+1EFE">>>>,
      <<"U+1F00", <<"U+1F08">>>>, <<"U+1F01", <<"U+1F09">>>>,
      <<"U+1F02", <<"U+1F0A">>>>, <<"U+1F03", <<"U+1F0B">>>>,
      <<"U+1F04", <<"U+1F0C">>>>, <<"U+1F05", <<"U+1F0D">>>>,
      <<"U+1F06", <<"U+1F0E">>>>, <<"U+1F07", <<"U+1F0F">>>>,
      <<"U+1F10", <<"U+1F18">>>>, <<"U+1F11", <<"U+1F19">>>>,
      <<"U+1F12", <<"U+1F1A">>>>, <<"U+1F13", <<"U+1F1B">>>>,
      <<"U+1F14", <<"U+1F1C">>>>, <<"U+1F15", <<"U+1F1D">>>>,
      <<"U+1F20", <<"U+1F28">>>>, <<"U+1F21", <<"U+1F29">>>>,
      <<"U+1F22", <<"U+1F2A">>>>, <<"U+1F23", <<"U+1F2B">>>>,
      <<"U+1F24", <<"U+1F2C">>>>, <<"U+1F25", <<"U+1F2D">>>>,
      <<"U+1F26", <<"U+1F2E">>>>, <<"U+1F27", <<"U+1F2F">>>>,
      <<"U+1F30", <<"U+1F38">>>>, <<"U+1F31", <<"U+1F39">>>>,
      <<"U+1F32", <<"U+1F3A">>>>, <<"U+1F33", <<"U+1F3B">>>>,
      <<"U+1F34", <<"U+1F3C">>>>, <<"U+1F35", <<"U+1F3D">>>>,
      <<"U+1F36", <<"U+1F3E">>>>, <<"U+1F37", <<"U+1F3F">>>>,
      <<"U+1F40", <<"U+1F48">>>>, <<"U+1F41", <<"U+1F49">>>>,
      <<"U+1F42", <<"U+1F4A">>>>, <<"U+1F43", <<"U+1F4B">>>>,
      <<"U+1F44", <<"U+1F4C">>>>, <<"U+1F45", <<"U+1F4D">>>>,
      <<"U+1F50", <<"U+03A5", "U+0313">>>>, <<"U+1F51", <<"U+1F59">>>>,
      <<"U+1F52", <<"U+03A5", "U+0313", "U+0300">>>>,
      <<"U+1F53", <<"U+1F5B">>>>,
      <<"U+1F54", <<"U+03A5", "U+0313", "U+0301">>>>,
      <<"U+1F55", <<"U+1F5D">>>>,
      <<"U+1F56", <<"U+03A5", "U+0313", "U+0342">>>>,
      <<"U+1F57", <<"U+1F5F">>>>, <<"U+1F60", <<"U+1F68">>>>,
      <<"U+1F61", <<"U+1F69">>>>, <<"U+1F62", <<"U+1F6A">>>>,
      <<"U+1F63", <<"U+1F6B">>>>, <<"U+1F64", <<"U+1F6C">>>>,
      <<"U+1F65", <<"U+1F6D">>>>, <<"U+1F66", <<"U+1F6E">>>>,
      <<"U+1F67", <<"U+1F6F">>>>, <<"U+1F70", <<"U+1FBA">>>>,
      <<"U+1F71", <<"U+1FBB">>>>, <<"U+1F72", <<"U+1FC8">>>>,
      <<"U+1F73", <<"U+1FC9">>>>, <<"U+1F74", <<"U+1FCA">>>>,
      <<"U+1F75", <<"U+1FCB">>>>, <<"U+1F76", <<"U+1FDA">>>>,
      <<"U+1F77", <<"U+1FDB">>>>, <<"U+1F78", <<"U+1FF8">>>>,
      <<"U+1F79", <<"U+1FF9">>>>, <<"U+1F7A", <<"U+1FEA">>>>,
      <<"U+1F7B", <<"U+1FEB">>>>, <<"U+1F7C", <<"U+1FFA">>>>,
      <<"U+1F7D", <<"U+1FFB">>>>, <<"U+1F80", <<"U+1F08", "U+0399">>>>,
      <<"U+1F81", <<"U+1F09", "U+0399">>>>,
      <<"U+1F82", <<"U+1F0A", "U+0399">>>>,
      <<"U+1F83", <<"U+1F0B", "U+0399">>>>,
      <<"U+1F84", <<"U+1F0C", "U+0399">>>>,
      <<"U+1F85", <<"U+1F0D", "U+0399">>>>,
      <<"U+1F86", <<"U+1F0E", "U+0399">>>>,
      <<"U+1F87", <<"U+1F0F", "U+0399">>>>,
      <<"U+1F88", <<"U+1F08", "U+0399">>>>,
      <<"U+1F89", <<"U+1F09", "U+0399">>>>,
      <<"U+1F8A", <<"U+1F0A", "U+0399">>>>,
      <<"U+1F8B", <<"U+1F0B", "U+0399">>>>,
      <<"U+1F8C", <<"U+1F0C", "U+0399">>>>,
      <<"U+1F8D", <<"U+1F0D", "U+0399">>>>,
      <<"U+1F8E", <<"U+1F0E", "U+0399">>>>,
      <<"U+1F8F", <<"U+1F0F", "U+0399">>>>,
      <<"U+1F90", <<"U+1F28", "U+0399">>>>,
      <<"U+1F91", <<"U+1F29", "U+0399">>>>,
      <<"U+1F92", <<"U+1F2A", "U+0399">>>>,
      <<"U+1F93", <<"U+1F2B", "U+0399">>>>,
      <<"U+1F94", <<"U+1F2C", "U+0399">>>>,
      <<"U+1F95", <<"U+1F2D", "U+0399">>>>,
      <<"U+1F96", <<"U+1F2E", "U+0399">>>>,
      <<"U+1F97", <<"U+1F2F", "U+0399">>>>,
      <<"U+1F98", <<"U+1F28", "U+0399">>>>,
      <<"U+1F99", <<"U+1F29", "U+0399">>>>,
      <<"U+1F9A", <<"U+1F2A", "U+0399">>>>,
      <<"U+1F9B", <<"U+1F2B", "U+0399">>>>,
      <<"U+1F9C", <<"U+1F2C", "U+0399">>>>,
      <<"U+1F9D", <<"U+1F2D", "U+0399">>>>,
      <<"U+1F9E", <<"U+1F2E", "U+0399">>>>,
      <<"U+1F9F", <<"U+1F2F", "U+0399">>>>,
      <<"U+1FA0", <<"U+1F68", "U+0399">>>>,
      <<"U+1FA1", <<"U+1F69", "U+0399">>>>,
      <<"U+1FA2", <<"U+1F6A", "U+0399">>>>,
      <<"U+1FA3", <<"U+1F6B", "U+0399">>>>,
      <<"U+1FA4", <<"U+1F6C", "U+0399">>>>,
      <<"U+1FA5", <<"U+1F6D", "U+0399">>>>,
      <<"U+1FA6", <<"U+1F6E", "U+0399">>>>,
      <<"U+1FA7", <<"U+1F6F", "U+0399">>>>,
      <<"U+1FA8", <<"U+1F68", "U+0399">>>>,
      <<"U+1FA9", <<"U+1F69", "U+0399">>>>,
      <<"U+1FAA", <<"U+1F6A", "U+0399">>>>,
      <<"U+1FAB", <<"U+1F6B", "U+0399">>>>,
      <<"U+1FAC", <<"U+1F6C", "U+0399">>>>,
      <<"U+1FAD", <<"U+1F6D", "U+0399">>>>,
      <<"U+1FAE", <<"U+1F6E", "U+0399">>>>,
      <<"U+1FAF", <<"U+1F6F", "U+0399">>>>, <<"U+1FB0", <<"U+1FB8">>>>,
      <<"U+1FB1", <<"U+1FB9">>>>, <<"U+1FB2", <<"U+1FBA", "U+0399">>>>,
      <<"U+1FB3", <<"U+0391", "U+0399">>>>,
      <<"U+1FB4", <<"U+0386", "U+0399">>>>,
      <<"U+1FB6", <<"U+0391", "U+0342">>>>,
      <<"U+1FB7", <<"U+0391", "U+0342", "U+0399">>>>,
      <<"U+1FBC", <<"U+0391", "U+0399">>>>, <<"U+1FBE", <<"U+0399">>>>,
      <<"U+1FC2", <<"U+1FCA", "U+0399">>>>,
      <<"U+1FC3", <<"U+0397", "U+0399">>>>,
      <<"U+1FC4", <<"U+0389", "U+0399">>>>,
      <<"U+1FC6", <<"U+0397", "U+0342">>>>,
      <<"U+1FC7", <<"U+0397", "U+0342", "U+0399">>>>,
      <<"U+1FCC", <<"U+0397", "U+0399">>>>, <<"U+1FD0", <<"U+1FD8">>>>,
      <<"U+1FD1", <<"U+1FD9">>>>,
      <<"U+1FD2", <<"U+0399", "U+0308", "U+0300">>>>,
      <<"U+1FD3", <<"U+0399", "U+0308", "U+0301">>>>,
      <<"U+1FD6", <<"U+0399", "U+0342">>>>,
      <<"U+1FD7", <<"U+0399", "U+0308", "U+0342">>>>,
      <<"U+1FE0", <<"U+1FE8">>>>, <<"U+1FE1", <<"U+1FE9">>>>,
      <<"U+1FE2", <<"U+03A5", "U+0308", "U+0300">>>>,
      <<"U+1FE3", <<"U+03A5", "U+0308", "U+0301">>>>,
      <<"U+1FE4", <<"U+03A1", "U+0313">>>>, <<"U+1FE5", <<"U+1FEC">>>>,
      <<"U+1FE6", <<"U+03A5", "U+0342">>>>,
      <<"U+1FE7", <<"U+03A5", "U+0308", "U+0342">>>>,
      <<"U+1FF2", <<"U+1FFA", "U+0399">>>>,
      <<"U+1FF3", <<"U+03A9", "U+0399">>>>,
      <<"U+1FF4", <<"U+038F", "U+0399">>>>,
      <<"U+1FF6", <<"U+03A9", "U+0342">>>>,
      <<"U+1FF7", <<"U+03A9", "U+0342", "U+0399">>>>,
      <<"U+1FFC", <<"U+03A9", "U+0399">>>>, <<"U+214E", <<"U+2132">>>>,
      <<"U+2170", <<"U+2160">>>>, <<"U+2171", <<"U+2161">>>>,
      <<"U+2172", <<"U+2162">>>>, <<"U+2173", <<"U+2163">>>>,
      <<"U+2174", <<"U+2164">>>>, <<"U+2175", <<"U+2165">>>>,
      <<"U+2176", <<"U+2166">>>>, <<"U+2177", <<"U+2167">>>>,
      <<"U+2178", <<"U+2168">>>>, <<"U+2179", <<"U+2169">>>>,
      <<"U+217A", <<"U+216A">>>>, <<"U+217B", <<"U+216B">>>>,
      <<"U+217C", <<"U+216C">>>>, <<"U+217D", <<"U+216D">>>>,
      <<"U+217E", <<"U+216E">>>>, <<"U+217F", <<"U+216F">>>>,
      <<"U+2184", <<"U+2183">>>>, <<"U+24D0", <<"U+24B6">>>>,
      <<"U+24D1", <<"U+24B7">>>>, <<"U+24D2", <<"U+24B8">>>>,
      <<"U+24D3", <<"U+24B9">>>>, <<"U+24D4", <<"U+24BA">>>>,
      <<"U+24D5", <<"U+24BB">>>>, <<"U+24D6", <<"U+24BC">>>>,
      <<"U+24D7", <<"U+24BD">>>>, <<"U+24D8", <<"U+24BE">>>>,
      <<"U+24D9", <<"U+24BF">>>>, <<"U+24DA", <<"U+24C0">>>>,
      <<"U+24DB", <<"U+24C1">>>>, <<"U+24DC", <<"U+24C2">>>>,
      <<"U+24DD", <<"U+24C3">>>>, <<"U+24DE", <<"U+24C4">>>>,
      <<"U+24DF", <<"U+24C5">>>>, <<"U+24E0", <<"U+24C6">>>>,
      <<"U+24E1", <<"U+24C7">>>>, <<"U+24E2", <<"U+24C8">>>>,
      <<"U+24E3", <<"U+24C9">>>>, <<"U+24E4", <<"U+24CA">>>>,
      <<"U+24E5", <<"U+24CB">>>>, <<"U+24E6", <<"U+24CC">>>>,
      <<"U+24E7", <<"U+24CD">>>>, <<"U+24E8", <<"U+24CE">>>>,
      <<"U+24E9", <<"U+24CF">>>>, <<"U+2C30", <<"U+2C00">>>>,
      <<"U+2C31", <<"U+2C01">>>>, <<"U+2C32", <<"U+2C02">>>>,
      <<"U+2C33", <<"U+2C03">>>>, <<"U+2C34", <<"U+2C04">>>>,
      <<"U+2C35", <<"U+2C05">>>>, <<"U+2C36", <<"U+2C06">>>>,
      <<"U+2C37", <<"U+2C07">>>>, <<"U+2C38", <<"U+2C08">>>>,
      <<"U+2C39", <<"U+2C09">>>>, <<"U+2C3A", <<"U+2C0A">>>>,
      <<"U+2C3B", <<"U+2C0B">>>>, <<"U+2C3C", <<"U+2C0C">>>>,
      <<"U+2C3D", <<"U+2C0D">>>>, <<"U+2C3E", <<"U+2C0E">>>>,
      <<"U+2C3F", <<"U+2C0F">>>>, <<"U+2C40", <<"U+2C10">>>>,
      <<"U+2C41", <<"U+2C11">>>>, <<"U+2C42", <<"U+2C12">>>>,
      <<"U+2C43", <<"U+2C13">>>>, <<"U+2C44", <<"U+2C14">>>>,
      <<"U+2C45", <<"U+2C15">>>>, <<"U+2C46", <<"U+2C16">>>>,
      <<"U+2C47", <<"U+2C17">>>>, <<"U+2C48", <<"U+2C18">>>>,
      <<"U+2C49", <<"U+2C19">>>>, <<"U+2C4A", <<"U+2C1A">>>>,
      <<"U+2C4B", <<"U+2C1B">>>>, <<"U+2C4C", <<"U+2C1C">>>>,
      <<"U+2C4D", <<"U+2C1D">>>>, <<"U+2C4E", <<"U+2C1E">>>>,
      <<"U+2C4F", <<"U+2C1F">>>>, <<"U+2C50", <<"U+2C20">>>>,
      <<"U+2C51", <<"U+2C21">>>>, <<"U+2C52", <<"U+2C22">>>>,
      <<"U+2C53", <<"U+2C23">>>>, <<"U+2C54", <<"U+2C24">>>>,
      <<"U+2C55", <<"U+2C25">>>>, <<"U+2C56", <<"U+2C26">>>>,
      <<"U+2C57", <<"U+2C27">>>>, <<"U+2C58", <<"U+2C28">>>>,
      <<"U+2C59", <<"U+2C29">>>>, <<"U+2C5A", <<"U+2C2A">>>>,
      <<"U+2C5B", <<"U+2C2B">>>>, <<"U+2C5C", <<"U+2C2C">>>>,
      <<"U+2C5D", <<"U+2C2D">>>>, <<"U+2C5E", <<"U+2C2E">>>>,
      <<"U+2C5F", <<"U+2C2F">>>>, <<"U+2C61", <<"U+2C60">>>>,
      <<"U+2C65", <<"U+023A">>>>, <<"U+2C66", <<"U+023E">>>>,
      <<"U+2C68", <<"U+2C67">>>>, <<"U+2C6A", <<"U+2C69">>>>,
      <<"U+2C6C", <<"U+2C6B">>>>, <<"U+2C73", <<"U+2C72">>>>,
      <<"U+2C76", <<"U+2C75">>>>, <<"U+2C81", <<"U+2C80">>>>,
      <<"U+2C83", <<"U+2C82">>>>, <<"U+2C85", <<"U+2C84">>>>,
      <<"U+2C87", <<"U+2C86">>>>, <<"U+2C89", <<"U+2C88">>>>,
      <<"U+2C8B", <<"U+2C8A">>>>, <<"U+2C8D", <<"U+2C8C">>>>,
      <<"U+2C8F", <<"U+2C8E">>>>, <<"U+2C91", <<"U+2C90">>>>,
      <<"U+2C93", <<"U+2C92">>>>, <<"U+2C95", <<"U+2C94">>>>,
      <<"U+2C97", <<"U+2C96">>>>, <<"U+2C99", <<"U+2C98">>>>,
      <<"U+2C9B", <<"U+2C9A">>>>, <<"U+2C9D", <<"U+2C9C">>>>,
      <<"U+2C9F", <<"U+2C9E">>>>, <<"U+2CA1", <<"U+2CA0">>>>,
      <<"U+2CA3", <<"U+2CA2">>>>, <<"U+2CA5", <<"U+2CA4">>>>,
      <<"U+2CA7", <<"U+2CA6">>>>, <<"U+2CA9", <<"U+2CA8">>>>,
      <<"U+2CAB", <<"U+2CAA">>>>, <<"U+2CAD", <<"U+2CAC">>>>,
      <<"U+2CAF", <<"U+2CAE">>>>, <<"U+2CB1", <<"U+2CB0">>>>,
      <<"U+2CB3", <<"U+2CB2">>>>, <<"U+2CB5", <<"U+2CB4">>>>,
      <<"U+2CB7", <<"U+2CB6">>>>, <<"U+2CB9", <<"U+2CB8">>>>,
      <<"U+2CBB", <<"U+2CBA">>>>, <<"U+2CBD", <<"U+2CBC">>>>,
      <<"U+2CBF", <<"U+2CBE">>>>, <<"U+2CC1", <<"U+2CC0">>>>,
      <<"U+2CC3", <<"U+2CC2">>>>, <<"U+2CC5", <<"U+2CC4">>>>,
      <<"U+2CC7", <<"U+2CC6">>>>, <<"U+2CC9", <<"U+2CC8">>>>,
      <<"U+2CCB", <<"U+2CCA">>>>, <<"U+2CCD", <<"U+2CCC">>>>,
      <<"U+2CCF", <<"U+2CCE">>>>, <<"U+2CD1", <<"U+2CD0">>>>,
      <<"U+2CD3", <<"U+2CD2">>>>, <<"U+2CD5", <<"U+2CD4">>>>,
      <<"U+2CD7", <<"U+2CD6">>>>, <<"U+2CD9", <<"U+2CD8">>>>,
      <<"U+2CDB", <<"U+2CDA">>>>, <<"U+2CDD", <<"U+2CDC">>>>,
      <<"U+2CDF", <<"U+2CDE">>>>, <<"U+2CE1", <<"U+2CE0">>>>,
      <<"U+2CE3", <<"U+2CE2">>>>, <<"U+2CEC", <<"U+2CEB">>>>,
      <<"U+2CEE", <<"U+2CED">>>>, <<"U+2CF3", <<"U+2CF2">>>>,
      <<"U+2D00", <<"U+10A0">>>>, <<"U+2D01", <<"U+10A1">>>>,
      <<"U+2D02", <<"U+10A2">>>>, <<"U+2D03", <<"U+10A3">>>>,
      <<"U+2D04", <<"U+10A4">>>>, <<"U+2D05", <<"U+10A5">>>>,
      <<"U+2D06", <<"U+10A6">>>>, <<"U+2D07", <<"U+10A7">>>>,
      <<"U+2D08", <<"U+10A8">>>>, <<"U+2D09", <<"U+10A9">>>>,
      <<"U+2D0A", <<"U+10AA">>>>, <<"U+2D0B", <<"U+10AB">>>>,
      <<"U+2D0C", <<"U+10AC">>>>, <<"U+2D0D", <<"U+10AD">>>>,
      <<"U+2D0E", <<"U+10AE">>>>, <<"U+2D0F", <<"U+10AF">>>>,
      <<"U+2D10", <<"U+10B0">>>>, <<"U+2D11", <<"U+10B1">>>>,
      <<"U+2D12", <<"U+10B2">>>>, <<"U+2D13", <<"U+10B3">>>>,
      <<"U+2D14", <<"U+10B4">>>>, <<"U+2D15", <<"U+10B5">>>>,
      <<"U+2D16", <<"U+10B6">>>>, <<"U+2D17", <<"U+10B7">>>>,
      <<"U+2D18", <<"U+10B8">>>>, <<"U+2D19", <<"U+10B9">>>>,
      <<"U+2D1A", <<"U+10BA">>>>, <<"U+2D1B", <<"U+10BB">>>>,
      <<"U+2D1C", <<"U+10BC">>>>, <<"U+2D1D", <<"U+10BD">>>>,
      <<"U+2D1E", <<"U+10BE">>>>, <<"U+2D1F", <<"U+10BF">>>>,
      <<"U+2D20", <<"U+10C0">>>>, <<"U+2D21", <<"U+10C1">>>>,
      <<"U+2D22", <<"U+10C2">>>>, <<"U+2D23", <<"U+10C3">>>>,
      <<"U+2D24", <<"U+10C4">>>>, <<"U+2D25", <<"U+10C5">>>>,
      <<"U+2D27", <<"U+10C7">>>>, <<"U+2D2D", <<"U+10CD">>>>,
      <<"U+A641", <<"U+A640">>>>, <<"U+A643", <<"U+A642">>>>,
      <<"U+A645", <<"U+A644">>>>, <<"U+A647", <<"U+A646">>>>,
      <<"U+A649", <<"U+A648">>>>, <<"U+A64B", <<"U+A64A">>>>,
      <<"U+A64D", <<"U+A64C">>>>, <<"U+A64F", <<"U+A64E">>>>,
      <<"U+A651", <<"U+A650">>>>, <<"U+A653", <<"U+A652">>>>,
      <<"U+A655", <<"U+A654">>>>, <<"U+A657", <<"U+A656">>>>,
      <<"U+A659", <<"U+A658">>>>, <<"U+A65B", <<"U+A65A">>>>,
      <<"U+A65D", <<"U+A65C">>>>, <<"U+A65F", <<"U+A65E">>>>,
      <<"U+A661", <<"U+A660">>>>, <<"U+A663", <<"U+A662">>>>,
      <<"U+A665", <<"U+A664">>>>, <<"U+A667", <<"U+A666">>>>,
      <<"U+A669", <<"U+A668">>>>, <<"U+A66B", <<"U+A66A">>>>,
      <<"U+A66D", <<"U+A66C">>>>, <<"U+A681", <<"U+A680">>>>,
      <<"U+A683", <<"U+A682">>>>, <<"U+A685", <<"U+A684">>>>,
      <<"U+A687", <<"U+A686">>>>, <<"U+A689", <<"U+A688">>>>,
      <<"U+A68B", <<"U+A68A">>>>, <<"U+A68D", <<"U+A68C">>>>,
      <<"U+A68F", <<"U+A68E">>>>, <<"U+A691", <<"U+A690">>>>,
      <<"U+A693", <<"U+A692">>>>, <<"U+A695", <<"U+A694">>>>,
      <<"U+A697", <<"U+A696">>>>, <<"U+A699", <<"U+A698">>>>,
      <<"U+A69B", <<"U+A69A">>>>, <<"U+A723", <<"U+A722">>>>,
      <<"U+A725", <<"U+A724">>>>, <<"U+A727", <<"U+A726">>>>,
      <<"U+A729", <<"U+A728">>>>, <<"U+A72B", <<"U+A72A">>>>,
      <<"U+A72D", <<"U+A72C">>>>, <<"U+A72F", <<"U+A72E">>>>,
      <<"U+A733", <<"U+A732">>>>, <<"U+A735", <<"U+A734">>>>,
      <<"U+A737", <<"U+A736">>>>, <<"U+A739", <<"U+A738">>>>,
      <<"U+A73B", <<"U+A73A">>>>, <<"U+A73D", <<"U+A73C">>>>,
      <<"U+A73F", <<"U+A73E">>>>, <<"U+A741", <<"U+A740">>>>,
      <<"U+A743", <<"U+A742">>>>, <<"U+A745", <<"U+A744">>>>,
      <<"U+A747", <<"U+A746">>>>, <<"U+A749", <<"U+A748">>>>,
      <<"U+A74B", <<"U+A74A">>>>, <<"U+A74D", <<"U+A74C">>>>,
      <<"U+A74F", <<"U+A74E">>>>, <<"U+A751", <<"U+A750">>>>,
      <<"U+A753", <<"U+A752">>>>, <<"U+A755", <<"U+A754">>>>,
      <<"U+A757", <<"U+A756">>>>, <<"U+A759", <<"U+A758">>>>,
      <<"U+A75B", <<"U+A75A">>>>, <<"U+A75D", <<"U+A75C">>>>,
      <<"U+A75F", <<"U+A75E">>>>, <<"U+A761", <<"U+A760">>>>,
      <<"U+A763", <<"U+A762">>>>, <<"U+A765", <<"U+A764">>>>,
      <<"U+A767", <<"U+A766">>>>, <<"U+A769", <<"U+A768">>>>,
      <<"U+A76B", <<"U+A76A">>>>, <<"U+A76D", <<"U+A76C">>>>,
      <<"U+A76F", <<"U+A76E">>>>, <<"U+A77A", <<"U+A779">>>>,
      <<"U+A77C", <<"U+A77B">>>>, <<"U+A77F", <<"U+A77E">>>>,
      <<"U+A781", <<"U+A780">>>>, <<"U+A783", <<"U+A782">>>>,
      <<"U+A785", <<"U+A784">>>>, <<"U+A787", <<"U+A786">>>>,
      <<"U+A78C", <<"U+A78B">>>>, <<"U+A791", <<"U+A790">>>>,
      <<"U+A793", <<"U+A792">>>>, <<"U+A794", <<"U+A7C4">>>>,
      <<"U+A797", <<"U+A796">>>>, <<"U+A799", <<"U+A798">>>>,
      <<"U+A79B", <<"U+A79A">>>>, <<"U+A79D", <<"U+A79C">>>>,
      <<"U+A79F", <<"U+A79E">>>>, <<"U+A7A1", <<"U+A7A0">>>>,
      <<"U+A7A3", <<"U+A7A2">>>>, <<"U+A7A5", <<"U+A7A4">>>>,
      <<"U+A7A7", <<"U+A7A6">>>>, <<"U+A7A9", <<"U+A7A8">>>>,
      <<"U+A7B5", <<"U+A7B4">>>>, <<"U+A7B7", <<"U+A7B6">>>>,
      <<"U+A7B9", <<"U+A7B8">>>>, <<"U+A7BB", <<"U+A7BA">>>>,
      <<"U+A7BD", <<"U+A7BC">>>>, <<"U+A7BF", <<"U+A7BE">>>>,
      <<"U+A7C1", <<"U+A7C0">>>>, <<"U+A7C3", <<"U+A7C2">>>>,
      <<"U+A7C8", <<"U+A7C7">>>>, <<"U+A7CA", <<"U+A7C9">>>>,
      <<"U+A7D1", <<"U+A7D0">>>>, <<"U+A7D7", <<"U+A7D6">>>>,
      <<"U+A7D9", <<"U+A7D8">>>>, <<"U+A7F6", <<"U+A7F5">>>>,
      <<"U+AB53", <<"U+A7B3">>>>, <<"U+AB70", <<"U+13A0">>>>,
      <<"U+AB71", <<"U+13A1">>>>, <<"U+AB72", <<"U+13A2">>>>,
      <<"U+AB73", <<"U+13A3">>>>, <<"U+AB74", <<"U+13A4">>>>,
      <<"U+AB75", <<"U+13A5">>>>, <<"U+AB76", <<"U+13A6">>>>,
      <<"U+AB77", <<"U+13A7">>>>, <<"U+AB78", <<"U+13A8">>>>,
      <<"U+AB79", <<"U+13A9">>>>, <<"U+AB7A", <<"U+13AA">>>>,
      <<"U+AB7B", <<"U+13AB">>>>, <<"U+AB7C", <<"U+13AC">>>>,
      <<"U+AB7D", <<"U+13AD">>>>, <<"U+AB7E", <<"U+13AE">>>>,
      <<"U+AB7F", <<"U+13AF">>>>, <<"U+AB80", <<"U+13B0">>>>,
      <<"U+AB81", <<"U+13B1">>>>, <<"U+AB82", <<"U+13B2">>>>,
      <<"U+AB83", <<"U+13B3">>>>, <<"U+AB84", <<"U+13B4">>>>,
      <<"U+AB85", <<"U+13B5">>>>, <<"U+AB86", <<"U+13B6">>>>,
      <<"U+AB87", <<"U+13B7">>>>, <<"U+AB88", <<"U+13B8">>>>,
      <<"U+AB89", <<"U+13B9">>>>, <<"U+AB8A", <<"U+13BA">>>>,
      <<"U+AB8B", <<"U+13BB">>>>, <<"U+AB8C", <<"U+13BC">>>>,
      <<"U+AB8D", <<"U+13BD">>>>, <<"U+AB8E", <<"U+13BE">>>>,
      <<"U+AB8F", <<"U+13BF">>>>, <<"U+AB90", <<"U+13C0">>>>,
      <<"U+AB91", <<"U+13C1">>>>, <<"U+AB92", <<"U+13C2">>>>,
      <<"U+AB93", <<"U+13C3">>>>, <<"U+AB94", <<"U+13C4">>>>,
      <<"U+AB95", <<"U+13C5">>>>, <<"U+AB96", <<"U+13C6">>>>,
      <<"U+AB97", <<"U+13C7">>>>, <<"U+AB98", <<"U+13C8">>>>,
      <<"U+AB99", <<"U+13C9">>>>, <<"U+AB9A", <<"U+13CA">>>>,
      <<"U+AB9B", <<"U+13CB">>>>, <<"U+AB9C", <<"U+13CC">>>>,
      <<"U+AB9D", <<"U+13CD">>>>, <<"U+AB9E", <<"U+13CE">>>>,
      <<"U+AB9F", <<"U+13CF">>>>, <<"U+ABA0", <<"U+13D0">>>>,
      <<"U+ABA1", <<"U+13D1">>>>, <<"U+ABA2", <<"U+13D2">>>>,
      <<"U+ABA3", <<"U+13D3">>>>, <<"U+ABA4", <<"U+13D4">>>>,
      <<"U+ABA5", <<"U+13D5">>>>, <<"U+ABA6", <<"U+13D6">>>>,
      <<"U+ABA7", <<"U+13D7">>>>, <<"U+ABA8", <<"U+13D8">>>>,
      <<"U+ABA9", <<"U+13D9">>>>, <<"U+ABAA", <<"U+13DA">>>>,
      <<"U+ABAB", <<"U+13DB">>>>, <<"U+ABAC", <<"U+13DC">>>>,
      <<"U+ABAD", <<"U+13DD">>>>, <<"U+ABAE", <<"U+13DE">>>>,
      <<"U+ABAF", <<"U+13DF">>>>, <<"U+ABB0", <<"U+13E0">>>>,
      <<"U+ABB1", <<"U+13E1">>>>, <<"U+ABB2", <<"U+13E2">>>>,
      <<"U+ABB3", <<"U+13E3">>>>, <<"U+ABB4", <<"U+13E4">>>>,
      <<"U+ABB5", <<"U+13E5">>>>, <<"U+ABB6", <<"U+13E6">>>>,
      <<"U+ABB7", <<"U+13E7">>>>, <<"U+ABB8", <<"U+13E8">>>>,
      <<"U+ABB9", <<"U+13E9">>>>, <<"U+ABBA", <<"U+13EA">>>>,
      <<"U+ABBB", <<"U+13EB">>>>, <<"U+ABBC", <<"U+13EC">>>>,
      <<"U+ABBD", <<"U+13ED">>>>, <<"U+ABBE", <<"U+13EE">>>>,
      <<"U+ABBF", <<"U+13EF">>>>, <<"U+FB00", <<"F", "F">>>>,
      <<"U+FB01", <<"F", "I">>>>, <<"U+FB02", <<"F", "L">>>>,
      <<"U+FB03", <<"F", "F", "I">>>>, <<"U+FB04", <<"F", "F", "L">>>>,
      <<"U+FB05", <<"S", "T">>>>, <<"U+FB06", <<"S", "T">>>>,
      <<"U+FB13", <<"U+0544", "U+0546">>>>,
      <<"U+FB14", <<"U+0544", "U+0535">>>>,
      <<"U+FB15", <<"U+0544", "U+053B">>>>,
      <<"U+FB16", <<"U+054E", "U+0546">>>>,
      <<"U+FB17", <<"U+0544", "U+053D">>>>, <<"U+FF41", <<"U+FF21">>>>,
      <<"U+FF42", <<"U+FF22">>>>, <<"U+FF43", <<"U+FF23">>>>,
      <<"U+FF44", <<"U+FF24">>>>, <<"U+FF45", <<"U+FF25">>>>,
      <<"U+FF46", <<"U+FF26">>>>, <<"U+FF47", <<"U+FF27">>>>,
      <<"U+FF48", <<"U+FF28">>>>, <<"U+FF49", <<"U+FF29">>>>,
      <<"U+FF4A", <<"U+FF2A">>>>, <<"U+FF4B", <<"U+FF2B">>>>,
      <<"U+FF4C", <<"U+FF2C">>>>, <<"U+FF4D", <<"U+FF2D">>>>,
      <<"U+FF4E", <<"U+FF2E">>>>, <<"U+FF4F", <<"U+FF2F">>>>,
      <<"U+FF50", <<"U+FF30">>>>, <<"U+FF51", <<"U+FF31">>>>,
      <<"U+FF52", <<"U+FF32">>>>, <<"U+FF53", <<"U+FF33">>>>,
      <<"U+FF54", <<"U+FF34">>>>, <<"U+FF55", <<"U+FF35">>>>,
      <<"U+FF56", <<"U+FF36">>>>, <<"U+FF57", <<"U+FF37">>>>,
      <<"U+FF58", <<"U+FF38">>>>, <<"U+FF59", <<"U+FF39">>>>,
      <<"U+FF5A", <<"U+FF3A">>>>, <<"U+10428", <<"U+10400">>>>,
      <<"U+10429", <<"U+10401">>>>, <<"U+1042A", <<"U+10402">>>>,
      <<"U+1042B", <<"U+10403">>>>, <<"U+1042C", <<"U+10404">>>>,
      <<"U+1042D", <<"U+10405">>>>, <<"U+1042E", <<"U+10406">>>>,
      <<"U+1042F", <<"U+10407">>>>, <<"U+10430", <<"U+10408">>>>,
      <<"U+10431", <<"U+10409">>>>, <<"U+10432", <<"U+1040A">>>>,
      <<"U+10433", <<"U+1040B">>>>, <<"U+10434", <<"U+1040C">>>>,
      <<"U+10435", <<"U+1040D">>>>, <<"U+10436", <<"U+1040E">>>>,
      <<"U+10437", <<"U+1040F">>>>, <<"U+10438", <<"U+10410">>>>,
      <<"U+10439", <<"U+10411">>>>, <<"U+1043A", <<"U+10412">>>>,
      <<"U+1043B", <<"U+10413">>>>, <<"U+1043C", <<"U+10414">>>>,
      <<"U+1043D", <<"U+10415">>>>, <<"U+1043E", <<"U+10416">>>>,
      <<"U+1043F", <<"U+10417">>>>, <<"U+10440", <<"U+10418">>>>,
      <<"U+10441", <<"U+10419">>>>, <<"U+10442", <<"U+1041A">>>>,
      <<"U+10443", <<"U+1041B">>>>, <<"U+10444", <<"U+1041C">>>>,
      <<"U+10445", <<"U+1041D">>>>, <<"U+10446", <<"U+1041E">>>>,
      <<"U+10447", <<"U+1041F">>>>, <<"U+10448", <<"U+10420">>>>,
      <<"U+10449", <<"U+10421">>>>, <<"U+1044A", <<"U+10422">>>>,
      <<"U+1044B", <<"U+10423">>>>, <<"U+1044C", <<"U+10424">>>>,
      <<"U+1044D", <<"U+10425">>>>, <<"U+1044E", <<"U+10426">>>>,
      <<"U+1044F", <<"U+10427">>>>, <<"U+104D8", <<"U+104B0">>>>,
      <<"U+104D9", <<"U+104B1">>>>, <<"U+104DA", <<"U+104B2">>>>,
      <<"U+104DB", <<"U+104B3">>>>, <<"U+104DC", <<"U+104B4">>>>,
      <<"U+104DD", <<"U+104B5">>>>, <<"U+104DE", <<"U+104B6">>>>,
      <<"U+104DF", <<"U+104B7">>>>, <<"U+104E0", <<"U+104B8">>>>,
      <<"U+104E1", <<"U+104B9">>>>, <<"U+104E2", <<"U+104BA">>>>,
      <<"U+104E3", <<"U+104BB">>>>, <<"U+104E4", <<"U+104BC">>>>,
      <<"U+104E5", <<"U+104BD">>>>, <<"U+104E6", <<"U+104BE">>>>,
      <<"U+104E7", <<"U+104BF">>>>, <<"U+104E8", <<"U+104C0">>>>,
      <<"U+104E9", <<"U+104C1">>>>, <<"U+104EA", <<"U+104C2">>>>,
      <<"U+104EB", <<"U+104C3">>>>, <<"U+104EC", <<"U+104C4">>>>,
      <<"U+104ED", <<"U+104C5">>>>, <<"U+104EE", <<"U+104C6">>>>,
      <<"U+104EF", <<"U+104C7">>>>, <<"U+104F0", <<"U+104C8">>>>,
      <<"U+104F1", <<"U+104C9">>>>, <<"U+104F2", <<"U+104CA">>>>,
      <<"U+104F3", <<"U+104CB">>>>, <<"U+104F4", <<"U+104CC">>>>,
      <<"U+104F5", <<"U+104CD">>>>, <<"U+104F6", <<"U+104CE">>>>,
      <<"U+104F7", <<"U+104CF">>>>, <<"U+104F8", <<"U+104D0">>>>,
      <<"U+104F9", <<"U+104D1">>>>, <<"U+104FA", <<"U+104D2">>>>,
      <<"U+104FB", <<"U+104D3">>>>, <<"U+10597", <<"U+10570">>>>,
      <<"U+10598", <<"U+10571">>>>, <<"U+10599", <<"U+10572">>>>,
      <<"U+1059A", <<"U+10573">>>>, <<"U+1059B", <<"U+10574">>>>,
      <<"U+1059C", <<"U+10575">>>>, <<"U+1059D", <<"U+10576">>>>,
      <<"U+1059E", <<"U+10577">>>>, <<"U+1059F", <<"U+10578">>>>,
      <<"U+105A0", <<"U+10579">>>>, <<"U+105A1", <<"U+1057A">>>>,
      <<"U+105A3", <<"U+1057C">>>>, <<"U+105A4", <<"U+1057D">>>>,
      <<"U+105A5", <<"U+1057E">>>>, <<"U+105A6", <<"U+1057F">>>>,
      <<"U+105A7", <<"U+10580">>>>, <<"U+105A8", <<"U+10581">>>>,
      <<"U+105A9", <<"U+10582">>>>, <<"U+105AA", <<"U+10583">>>>,
      <<"U+105AB", <<"U+10584">>>>, <<"U+105AC", <<"U+10585">>>>,
      <<"U+105AD", <<"U+10586">>>>, <<"U+105AE", <<"U+10587">>>>,
      <<"U+105AF", <<"U+10588">>>>, <<"U+105B0", <<"U+10589">>>>,
      <<"U+105B1", <<"U+1058A">>>>, <<"U+105B3", <<"U+1058C">>>>,
      <<"U+105B4", <<"U+1058D">>>>, <<"U+105B5", <<"U+1058E">>>>,
      <<"U+105B6", <<"U+1058F">>>>, <<"U+105B7", <<"U+10590">>>>,
      <<"U+105B8", <<"U+10591">>>>, <<"U+105B9", <<"U+10592">>>>,
      <<"U+105BB", <<"U+10594">>>>, <<"U+105BC", <<"U+10595">>>>,
      <<"U+10CC0", <<"U+10C80">>>>, <<"U+10CC1", <<"U+10C81">>>>,
      <<"U+10CC2", <<"U+10C82">>>>, <<"U+10CC3", <<"U+10C83">>>>,
      <<"U+10CC4", <<"U+10C84">>>>, <<"U+10CC5", <<"U+10C85">>>>,
      <<"U+10CC6", <<"U+10C86">>>>, <<"U+10CC7", <<"U+10C87">>>>,
      <<"U+10CC8", <<"U+10C88">>>>, <<"U+10CC9", <<"U+10C89">>>>,
      <<"U+10CCA", <<"U+10C8A">>>>, <<"U+10CCB", <<"U+10C8B">>>>,
      <<"U+10CCC", <<"U+10C8C">>>>, <<"U+10CCD", <<"U+10C8D">>>>,
      <<"U+10CCE", <<"U+10C8E">>>>, <<"U+10CCF", <<"U+10C8F">>>>,
      <<"U+10CD0", <<"U+10C90">>>>, <<"U+10CD1", <<"U+10C91">>>>,
      <<"U+10CD2", <<"U+10C92">>>>, <<"U+10CD3", <<"U+10C93">>>>,
      <<"U+10CD4", <<"U+10C94">>>>, <<"U+10CD5", <<"U+10C95">>>>,
      <<"U+10CD6", <<"U+10C96">>>>, <<"U+10CD7", <<"U+10C97">>>>,
      <<"U+10CD8", <<"U+10C98">>>>, <<"U+10CD9", <<"U+10C99">>>>,
      <<"U+10CDA", <<"U+10C9A">>>>, <<"U+10CDB", <<"U+10C9B">>>>,
      <<"U+10CDC", <<"U+10C9C">>>>, <<"U+10CDD", <<"U+10C9D">>>>,
      <<"U+10CDE", <<"U+10C9E">>>>, <<"U+10CDF", <<"U+10C9F">>>>,
      <<"U+10CE0", <<"U+10CA0">>>>, <<"U+10CE1", <<"U+10CA1">>>>,
      <<"U+10CE2", <<"U+10CA2">>>>, <<"U+10CE3", <<"U+10CA3">>>>,
      <<"U+10CE4", <<"U+10CA4">>>>, <<"U+10CE5", <<"U+10CA5">>>>,
      <<"U+10CE6", <<"U+10CA6">>>>, <<"U+10CE7", <<"U+10CA7">>>>,
      <<"U+10CE8", <<"U+10CA8">>>>, <<"U+10CE9", <<"U+10CA9">>>>,
      <<"U+10CEA", <<"U+10CAA">>>>, <<"U+10CEB", <<"U+10CAB">>>>,
      <<"U+10CEC", <<"U+10CAC">>>>, <<"U+10CED", <<"U+10CAD">>>>,
      <<"U+10CEE", <<"U+10CAE">>>>, <<"U+10CEF", <<"U+10CAF">>>>,
      <<"U+10CF0", <<"U+10CB0">>>>, <<"U+10CF1", <<"U+10CB1">>>>,
      <<"U+10CF2", <<"U+10CB2">>>>, <<"U+118C0", <<"U+118A0">>>>,
      <<"U+118C1", <<"U+118A1">>>>, <<"U+118C2", <<"U+118A2">>>>,
      <<"U+118C3", <<"U+118A3">>>>, <<"U+118C4", <<"U+118A4">>>>,
      <<"U+118C5", <<"U+118A5">>>>, <<"U+118C6", <<"U+118A6">>>>,
      <<"U+118C7", <<"U+118A7">>>>, <<"U+118C8", <<"U+118A8">>>>,
      <<"U+118C9", <<"U+118A9">>>>, <<"U+118CA", <<"U+118AA">>>>,
      <<"U+118CB", <<"U+118AB">>>>, <<"U+118CC", <<"U+118AC">>>>,
      <<"U+118CD", <<"U+118AD">>>>, <<"U+118CE", <<"U+118AE">>>>,
      <<"U+118CF", <<"U+118AF">>>>, <<"U+118D0", <<"U+118B0">>>>,
      <<"U+118D1", <<"U+118B1">>>>, <<"U+118D2", <<"U+118B2">>>>,
      <<"U+118D3", <<"U+118B3">>>>, <<"U+118D4", <<"U+118B4">>>>,
      <<"U+118D5", <<"U+118B5">>>>, <<"U+118D6", <<"U+118B6">>>>,
      <<"U+118D7", <<"U+118B7">>>>, <<"U+118D8", <<"U+118B8">>>>,
      <<"U+118D9", <<"U+118B9">>>>, <<"U+118DA", <<"U+118BA">>>>,
      <<"U+118DB", <<"U+118BB">>>>, <<"U+118DC", <<"U+118BC">>>>,
      <<"U+118DD", <<"U+118BD">>>>, <<"U+118DE", <<"U+118BE">>>>,
      <<"U+118DF", <<"U+118BF">>>>, <<"U+16E60", <<"U+16E40">>>>,
      <<"U+16E61", <<"U+16E41">>>>, <<"U+16E62", <<"U+16E42">>>>,
      <<"U+16E63", <<"U+16E43">>>>, <<"U+16E64", <<"U+16E44">>>>,
      <<"U+16E65", <<"U+16E45">>>>, <<"U+16E66", <<"U+16E46">>>>,
      <<"U+16E67", <<"U+16E47">>>>, <<"U+16E68", <<"U+16E48">>>>,
      <<"U+16E69", <<"U+16E49">>>>, <<"U+16E6A", <<"U+16E4A">>>>,
      <<"U+16E6B", <<"U+16E4B">>>>, <<"U+16E6C", <<"U+16E4C">>>>,
      <<"U+16E6D", <<"U+16E4D">>>>, <<"U+16E6E", <<"U+16E4E">>>>,
      <<"U+16E6F", <<"U+16E4F">>>>, <<"U+16E70", <<"U+16E50">>>>,
      <<"U+16E71", <<"U+16E51">>>>, <<"U+16E72", <<"U+16E52">>>>,
      <<"U+16E73", <<"U+16E53">>>>, <<"U+16E74", <<"U+16E54">>>>,
      <<"U+16E75", <<"U+16E55">>>>, <<"U+16E76", <<"U+16E56">>>>,
      <<"U+16E77", <<"U+16E57">>>>, <<"U+16E78", <<"U+16E58">>>>,
      <<"U+16E79", <<"U+16E59">>>>, <<"U+16E7A", <<"U+16E5A">>>>,
      <<"U+16E7B", <<"U+16E5B">>>>, <<"U+16E7C", <<"U+16E5C">>>>,
      <<"U+16E7D", <<"U+16E5D">>>>, <<"U+16E7E", <<"U+16E5E">>>>,
      <<"U+16E7F", <<"U+16E5F">>>>, <<"U+1E922", <<"U+1E900">>>>,
      <<"U+1E923", <<"U+1E901">>>>, <<"U+1E924", <<"U+1E902">>>>,
      <<"U+1E925", <<"U+1E903">>>>, <<"U+1E926", <<"U+1E904">>>>,
      <<"U+1E927", <<"U+1E905">>>>, <<"U+1E928", <<"U+1E906">>>>,
      <<"U+1E929", <<"U+1E907">>>>, <<"U+1E92A", <<"U+1E908">>>>,
      <<"U+1E92B", <<"U+1E909">>>>, <<"U+1E92C", <<"U+1E90A">>>>,
      <<"U+1E92D", <<"U+1E90B">>>>, <<"U+1E92E", <<"U+1E90C">>>>,
      <<"U+1E92F", <<"U+1E90D">>>>, <<"U+1E930", <<"U+1E90E">>>>,
      <<"U+1E931", <<"U+1E90F">>>>, <<"U+1E932", <<"U+1E910">>>>,
      <<"U+1E933", <<"U+1E911">>>>, <<"U+1E934", <<"U+1E912">>>>,
      <<"U+1E935", <<"U+1E913">>>>, <<"U+1E936", <<"U+1E914">>>>,
      <<"U+1E937", <<"U+1E915">>>>, <<"U+1E938", <<"U+1E916">>>>,
      <<"U+1E939", <<"U+1E917">>>>, <<"U+1E93A", <<"U+1E918">>>>,
      <<"U+1E93B", <<"U+1E919">>>>, <<"U+1E93C", <<"U+1E91A">>>>,
      <<"U+1E93D", <<"U+1E91B">>>>, <<"U+1E93E", <<"U+1E91C">>>>,
      <<"U+1E93F", <<"U+1E91D">>>>, <<"U+1E940", <<"U+1E91E">>>>,
      <<"U+1E941", <<"U+1E91F">>>>, <<"U+1E942", <<"U+1E920">>>>,
      <<"U+1E943", <<"U+1E921">>>> }

UpperChanged == { p[1] : p \in UpperPairs }

\* str.upper() on one character, as a string
UpperChar(c) ==
    IF \E i \in DOMAIN LowerLetters : LowerLetters[i] = c
    THEN << UpperLetters[CHOOSE i \in DOMAIN LowerLetters : LowerLetters[i] = c] >>
    ELSE IF c \in UpperChanged
    THEN (CHOOSE p \in UpperPairs : p[1] = c)[2]
    ELSE << c >>

\* str.upper(): the upper cases of the characters, concatenated
RECURSIVE Upper(_)
Upper(s) == IF s = << >> THEN << >> ELSE UpperChar(s[1]) \o Upper(Tail(s))

\* str.strip(): drop leading and trailing whitespace
Strip(s) ==
    LET keep == { i \in DOMAIN s : s[i] \notin ClassSpace }
    IN  IF keep = {} THEN << >>
        ELSE LET lo == CHOOSE i \in keep : \A j \in keep : i <= j
                 hi == CHOOSE i \in keep : \A j \in keep : j <= i
             IN  SubSeq(s, lo, hi)

\* str.startswith / str.endswith
StartsWith(s, p) == Len(p) <= Len(s) /\ SubSeq(s, 1, Len(p)) = p
EndsWith(s, p) == Len(p) <= Len(s) /\ SubSeq(s, Len(s) - Len(p) + 1, Len(s)) = p

\* value of one decimal digit, as int() reads it
DigitVal(c) ==
    IF c \in Range(DigitChars)
    THEN (CHOOSE i \in DOMAIN DigitChars : DigitChars[i] = c) - 1
    ELSE LET r == CHOOSE k \in DOMAIN DigitRows : c \in Range(DigitRows[k])
         IN  (CHOOSE i \in DOMAIN DigitRows[r] : DigitRows[r][i] = c) - 1

\* int() of a string of decimal digits
RECURSIVE DigitsToInt(_)
DigitsToInt(s) ==
    IF s = << >> THEN 0
    ELSE 10 * DigitsToInt(SubSeq(s, 1, Len(s) - 1)) + DigitVal(s[Len(s)])

\* int() of a decimal string with an optional leading minus sign
ToInt(s) ==
    IF s # << >> /\ s[1] = "-" THEN 0 - DigitsToInt(Tail(s)) ELSE DigitsToInt(s)

\* str() of a natural number
RECURSIVE NatToStr(_)
NatToStr(n) ==
    IF n < 10 THEN << DigitChars[n + 1] >>
    ELSE NatToStr(n \div 10) \o << DigitChars[(n % 10) + 1] >>

\* abs()
Abs(n) == IF n < 0 THEN 0 - n ELSE n

(***************************************************************************)
(* parser.py                                                               *)
(***************************************************************************)
NIFTY == <<"N", "I", "F", "T", "Y">>
BANKNIFTY == <<"B", "A", "N", "K", "N", "I", "F", "T", "Y">>
FINNIFTY == <<"F", "I", "N", "N", "I", "F", "T", "Y">>
MIDCPNIFTY == <<"M", "I", "D", "C", "P", "N", "I", "F", "T", "Y">>
SENSEX == <<"S", "E", "N", "S", "E", "X">>
VALID_SYMBOLS == { NIFTY, BANKNIFTY, FINNIFTY, MIDCPNIFTY, SENSEX }

\* A pattern is a sequence of items.  An item either is an alternation of
\* literals or a repetition {min,max} of a character class (max = 0 stands
\* for "no upper limit"); cap says whether the item is a capturing group.
Alt(alts, cap) == [ kind |-> "alt", alts |-> alts, cap |-> cap ]
Rep(class, min, max, cap) ==
    [ kind |-> "rep", class |-> class, min |-> min, max |-> max, cap |-> cap ]

COMMAND_PATTERN ==
    << Alt({ <<"B", "U", "Y">>, <<"S", "E", "L", "L">> }, TRUE), Rep(ClassSpace, 1, 0, FALSE),
       Rep(ClassAZ, 1, 0, TRUE),       Rep(ClassSpace, 1, 0, FALSE),
       Rep(ClassDigit, 4, 6, TRUE),    Rep(ClassSpace, 1, 0, FALSE),
       Alt({ <<"C", "E">>, <<"P", "E">> }, TRUE),    Rep(ClassSpace, 1, 0, FALSE),
       Rep(ClassDigit, 1, 0, TRUE) >>

SQUAREOFF_ALL_PATTERN == << Alt({ <<"S", "Q", "U", "A", "R", "E", "O", "F", "F">> }, FALSE) >>

SQUAREOFF_LEG_PATTERN ==
    << Alt({ <<"S", "Q", "U", "A", "R", "E", "O", "F", "F">> }, FALSE),   Rep(ClassSpace, 1, 0, FALSE),
       Rep(ClassAZ, 1, 0, TRUE),       Rep(ClassSpace, 1, 0, FALSE),
       Rep(ClassDigit, 4, 6, TRUE),    Rep(ClassSpace, 1, 0, FALSE),
       Alt({ <<"C", "E">>, <<"P", "E">> }, TRUE) >>

\* length of the longest run of characters of class starting at pos
RECURSIVE RunLen(_, _, _)
RunLen(text, pos, class) ==
    IF pos <= Len(text) /\ text[pos] \in class
    THEN 1 + RunLen(text, pos + 1, class) ELSE 0

\* All ways the items match text from pos up to the end of the text (the
\* patterns are anchored by ^ and $); each way is the tuple of its groups.
RECURSIVE MatchFrom(_, _, _)
MatchFrom(items, text, pos) ==
    IF items = << >>
    THEN IF pos = Len(text) + 1 THEN { << >> } ELSE { }
    ELSE LET it == Head(items)
             ends == IF it.kind = "alt"
                     THEN { pos + Len(a) : a \in
                              { b \in it.alts :
                                   /\ pos + Len(b) - 1 <= Len(text)
                                   /\ SubSeq(text, pos, pos + Len(b) - 1) = b } }
                     ELSE LET run == RunLen(text, pos, it.class)
                              top == IF it.max = 0 \/ run < it.max
                                     THEN run ELSE it.max
                          IN  { pos + n : n \in it.min .. top }
         IN  UNION { { (IF it.cap THEN << SubSeq(text, pos, e - 1) >>
                                  ELSE << >>) \o g :
                         g \in MatchFrom(Tail(items), text, e) } : e \in ends }

\* re.match(text): whether the pattern matches, and the groups of the match
ReMatch(pattern, text) ==
    LET ms == MatchFrom(pattern, text, 1)
    IN  IF ms = {} THEN [ ok |-> FALSE, groups |-> << >> ]
        ELSE [ ok |-> TRUE, groups |-> CHOOSE g \in ms : TRUE ]

\* the Python value None, as the result of parse_command
None == [ action |-> "None" ]

\* the action group of COMMAND_PATTERN as the string stored in the intent
ActionName(g) == IF g = <<"B", "U", "Y">> THEN "BUY" ELSE "SELL"

\* parse_command together with the list of the patterns it tried
ParseRun(text0) ==
    LET text == Upper(Strip(text0))
        leg == ReMatch(SQUAREOFF_LEG_PATTERN, text)
        cmd == ReMatch(COMMAND_PATTERN, text)
    IN  IF ReMatch(SQUAREOFF_ALL_PATTERN, text).ok
        THEN [ intent |-> [ action |-> "SQUAREOFF_ALL" ],
               tried |-> << "SQUAREOFF_ALL" >> ]
        ELSE IF leg.ok
        THEN [ intent |-> IF leg.groups[1] \notin VALID_SYMBOLS THEN None
                          ELSE [ action |-> "SQUAREOFF_LEG",
                                 symbol |-> leg.groups[1],
                                 strike |-> DigitsToInt(leg.groups[2]),
                                 option_type |-> leg.groups[3] ],
               tried |-> << "SQUAREOFF_ALL", "SQUAREOFF_LEG" >> ]
        ELSE [ intent |-> IF ~ cmd.ok THEN None
                          ELSE IF cmd.groups[2] \notin VALID_SYMBOLS THEN None
                          ELSE [ action |-> ActionName(cmd.groups[1]),
                                 symbol |-> cmd.groups[2],
                                 strike |-> DigitsToInt(cmd.groups[3]),
                                 option_type |-> cmd.groups[4],
                                 qty |-> DigitsToInt(cmd.groups[5]) ],
               tried |-> << "SQUAREOFF_ALL", "SQUAREOFF_LEG", "COMMAND" >> ]

\* parse_command(text)
parse_command(text) == ParseRun(text).intent

(***************************************************************************)
(* risk_gate.py                                                            *)
(***************************************************************************)
\* APPROX_PREMIUMS.get(symbol, 200)
APPROX_PREMIUMS(symbol) ==
    CASE symbol = NIFTY      -> 150
      [] symbol = BANKNIFTY  -> 300
      [] symbol = FINNIFTY   -> 100
      [] symbol = MIDCPNIFTY -> 80
      [] symbol = SENSEX     -> 200
      [] OTHER               -> 200

\* LOT_SIZES.get(symbol, 50) of risk_gate.py
RISK_LOT_SIZES(symbol) ==
    CASE symbol = NIFTY      -> 50
      [] symbol = BANKNIFTY  -> 15
      [] symbol = FINNIFTY   -> 40
      [] symbol = MIDCPNIFTY -> 75
      [] symbol = SENSEX     -> 10
      [] OTHER               -> 50

\* RiskCheck without the check of the quantity against max_qty
RiskCheckNoMax(trade, max_qty, max_order_value) ==
    LET est_value == trade.qty * RISK_LOT_SIZES(trade.symbol)
                               * APPROX_PREMIUMS(trade.symbol)
    IN  IF trade.qty <= 0
        THEN [ ok |-> FALSE, reason |-> "Quantity must be positive",
               value |-> trade.qty, limit |-> 0 ]
        ELSE IF trade.strike % 50 # 0
        THEN [ ok |-> FALSE, reason |-> "Strike should be multiple of 50",
               value |-> trade.strike, limit |-> 50 ]
        ELSE IF est_value > max_order_value
        THEN [ ok |-> FALSE, reason |-> "Estimated order value exceeds limit",
               value |-> est_value, limit |-> max_order_value ]
        ELSE [ ok |-> TRUE, reason |-> "", value |-> 0, limit |-> 0 ]

\* RiskCheck with the strike looked at before the quantity
RiskCheckStrikeFirst(trade, max_qty, max_order_value) ==
    LET est_value == trade.qty * RISK_LOT_SIZES(trade.symbol)
                               * APPROX_PREMIUMS(trade.symbol)
    IN  IF trade.strike % 50 # 0
        THEN [ ok |-> FALSE, reason |-> "Strike should be multiple of 50",
               value |-> trade.strike, limit |-> 50 ]
        ELSE IF trade.qty <= 0
        THEN [ ok |-> FALSE, reason |-> "Quantity must be positive",
               value |-> trade.qty, limit |-> 0 ]
        ELSE IF trade.qty > max_qty
        THEN [ ok |-> FALSE, reason |-> "Quantity exceeds max allowed lots",
               value |-> trade.qty, limit |-> max_qty ]
        ELSE IF est_value > max_order_value
        THEN [ ok |-> FALSE, reason |-> "Estimated order value exceeds limit",
               value |-> est_value, limit |-> max_order_value ]
        ELSE [ ok |-> TRUE, reason |-> "", value |-> 0, limit |-> 0 ]

\* RiskGate.check: (ok, reason); the reason keeps the numbers its text shows
RiskCheck(trade, max_qty, max_order_value) ==
    LET est_value == trade.qty * RISK_LOT_SIZES(trade.symbol)
                               * APPROX_PREMIUMS(trade.symbol)
    IN  IF trade.qty <= 0
        THEN [ ok |-> FALSE, reason |-> "Quantity must be positive",
               value |-> trade.qty, limit |-> 0 ]
        ELSE IF trade.qty > max_qty
        THEN [ ok |-> FALSE, reason |-> "Quantity exceeds max allowed lots",
               value |-> trade.qty, limit |-> max_qty ]
        ELSE IF trade.strike % 50 # 0
        THEN [ ok |-> FALSE, reason |-> "Strike should be multiple of 50",
               value |-> trade.strike, limit |-> 50 ]
        ELSE IF est_value > max_order_value
        THEN [ ok |-> FALSE, reason |-> "Estimated order value exceeds limit",
               value |-> est_value, limit |-> max_order_value ]
        ELSE [ ok |-> TRUE, reason |-> "", value |-> 0, limit |-> 0 ]

(***************************************************************************)
(* angel_client.py                                                         *)
(*                                                                         *)
(* The SmartConnect SDK is the environment.  One SDK call ends in one of   *)
(*   "ok"        status true, with data                                    *)
(*   "rejected"  status false, with a message (margin, instrument, ...)    *)
(*   "raise"     the call raises (timeout, network, malformed answer)      *)
(*   "authfail"  status false because the session token is expired         *)
(***************************************************************************)
\* LOT_SIZES.get(symbol, 50) of angel_client.py
ANGEL_LOT_SIZES(symbol) ==
    CASE symbol = NIFTY      -> 50
      [] symbol = BANKNIFTY  -> 15
      [] symbol = FINNIFTY   -> 40
      [] symbol = MIDCPNIFTY -> 75
      [] symbol = SENSEX     -> 10
      [] OTHER               -> 50

\* the month names of strftime("%b"), in capitals
MonthAbbr ==
    << <<"J", "A", "N">>, <<"F", "E", "B">>, <<"M", "A", "R">>, <<"A", "P", "R">>, <<"M", "A", "Y">>, <<"J", "U", "N">>,
       <<"J", "U", "L">>, <<"A", "U", "G">>, <<"S", "E", "P">>, <<"O", "C", "T">>, <<"N", "O", "V">>, <<"D", "E", "C">> >>

\* today.strftime("%y%b").upper(): two digits of the year and the month;
\* today is the date the clock gives, [year, month, day]
ExpiryStr(today) ==
    LET yy == today.year % 100
    IN  (IF yy < 10 THEN <<"0">> ELSE << >>) \o NatToStr(yy)
          \o MonthAbbr[today.month]

\* _get_trading_symbol
GetTradingSymbol(symbol, strike, option_type, today) ==
    symbol \o ExpiryStr(today) \o NatToStr(strike) \o option_type

\* the message of a failed SDK call, as the code sees it
BrokerMessage(outcome) ==
    CASE outcome = "rejected" -> "Insufficient margin"
      [] outcome = "authfail" -> "Invalid Token"
      [] outcome = "raise"    -> "Read timed out"
      [] OTHER                -> ""

\* ResolveToken handing out a made-up token instead of raising
ResolveTokenFabricated(trading_symbol) ==
    [ raised |-> FALSE, error |-> "", token |-> "0" ]

\* _resolve_token: the body is a placeholder that raises NotImplementedError
ResolveToken(trading_symbol) ==
    [ raised |-> TRUE, error |-> "NotImplementedError", token |-> "" ]

\* GetPositions handing the broker's list through whatever the call did
GetPositionsUnguarded(pos, fetch) == pos

\* get_positions: the snapshot, or [] when the SDK call raised or returned
\* no data; pos is the broker's current list, fetch the SDK call's outcome
GetPositions(pos, fetch) == IF fetch = "ok" THEN pos ELSE << >>

\* CloseParams always selling, whatever the sign of the net quantity
CloseParamsAlwaysSell(p) ==
    LET net_qty == ToInt(p.netqty)
    IN  [ variety |-> "NORMAL", tradingsymbol |-> p.tradingsymbol,
          symboltoken |-> p.symboltoken,
          transactiontype |-> "SELL",
          exchange |-> p.exchange, ordertype |-> "MARKET",
          producttype |-> p.producttype, duration |-> "DAY",
          quantity |-> NatToStr(Abs(net_qty)) ]

\* the order_params both squareoff operations build for a position
CloseParams(p) ==
    LET net_qty == ToInt(p.netqty)
    IN  [ variety |-> "NORMAL", tradingsymbol |-> p.tradingsymbol,
          symboltoken |-> p.symboltoken,
          transactiontype |-> IF net_qty > 0 THEN "SELL" ELSE "BUY",
          exchange |-> p.exchange, ordertype |-> "MARKET",
          producttype |-> p.producttype, duration |-> "DAY",
          quantity |-> NatToStr(Abs(net_qty)) ]

\* the entry squareoff_all appends to results for one position
LegResult(p, outcome, orderid) ==
    LET net_qty == ToInt(p.netqty)
    IN  IF outcome = "raise"
        THEN [ tradingsymbol |-> p.tradingsymbol,
               status |-> "FAILED: Read timed out" ]
        ELSE [ tradingsymbol |-> p.tradingsymbol,
               side |-> IF net_qty > 0 THEN "SELL" ELSE "BUY",
               qty |-> Abs(net_qty),
               orderid |-> IF outcome = "ok" THEN orderid ELSE 0,
               status |-> IF outcome = "ok" THEN "OK"
                          ELSE BrokerMessage(outcome) ]

\* SquareoffLoop re-issuing a placeOrder call that did not succeed
RECURSIVE SquareoffLoopRetry(_, _, _, _)
SquareoffLoopRetry(positions, i, outs, acc) ==
    IF i > Len(positions) THEN acc
    ELSE LET p == positions[i]
             order == [ params |-> CloseParams(p), outcome |-> outs[i],
                        index |-> i ]
         IN  IF ToInt(p.netqty) = 0
             THEN SquareoffLoopRetry(positions, i + 1, outs, acc)
             ELSE SquareoffLoopRetry(positions, i + 1, outs,
                    [ results |-> Append(acc.results,
                          LegResult(p, outs[i], Len(acc.placed) + 1)),
                      placed |-> IF outs[i] = "ok"
                                 THEN Append(acc.placed, order)
                                 ELSE acc.placed \o << order, order >> ])

\* SquareoffLoop stopping at the first placeOrder call that did not succeed
RECURSIVE SquareoffLoopAbort(_, _, _, _)
SquareoffLoopAbort(positions, i, outs, acc) ==
    IF i > Len(positions) THEN acc
    ELSE LET p == positions[i]
             next == [ results |-> Append(acc.results,
                           LegResult(p, outs[i], Len(acc.placed) + 1)),
                       placed |-> Append(acc.placed,
                           [ params |-> CloseParams(p), outcome |-> outs[i],
                             index |-> i ]) ]
         IN  IF ToInt(p.netqty) = 0
             THEN SquareoffLoopAbort(positions, i + 1, outs, acc)
             ELSE IF outs[i] # "ok" THEN next
             ELSE SquareoffLoopAbort(positions, i + 1, outs, next)

\* the loop of squareoff_all from position i on; outs[i] is the outcome the
\* SDK gives the placeOrder call made for position i
RECURSIVE SquareoffLoop(_, _, _, _)
SquareoffLoop(positions, i, outs, acc) ==
    IF i > Len(positions) THEN acc
    ELSE LET p == positions[i]
         IN  IF ToInt(p.netqty) = 0
             THEN SquareoffLoop(positions, i + 1, outs, acc)
             ELSE SquareoffLoop(positions, i + 1, outs,
                    [ results |-> Append(acc.results,
                          LegResult(p, outs[i], Len(acc.placed) + 1)),
                      placed |-> Append(acc.placed,
                          [ params |-> CloseParams(p), outcome |-> outs[i],
                            index |-> i ]) ])

\* squareoff_all: the results list and the placeOrder calls made
SquareoffAll(pos, fetch, outs) ==
    LET r == SquareoffLoop(GetPositions(pos, fetch), 1, outs,
                           [ results |-> << >>, placed |-> << >> ])
    IN  [ raised |-> "", results |-> r.results, placed |-> r.placed,
          calls |-> << "get_positions", "position" >> \o [ i \in DOMAIN r.placed |-> "placeOrder" ] ]

\* MatchedIndexes without the test that the position is not flat
MatchedIndexesWithFlat(positions, symbol, strike, option_type) ==
    LET search_suffix == NatToStr(strike) \o option_type
    IN  { i \in DOMAIN positions :
            /\ StartsWith(positions[i].tradingsymbol, symbol)
            /\ EndsWith(positions[i].tradingsymbol, search_suffix) }

\* the positions squareoff_leg selects, as indexes of the snapshot, in order
MatchedIndexes(positions, symbol, strike, option_type) ==
    LET search_suffix == NatToStr(strike) \o option_type
    IN  { i \in DOMAIN positions :
            /\ StartsWith(positions[i].tradingsymbol, symbol)
            /\ EndsWith(positions[i].tradingsymbol, search_suffix)
            /\ ToInt(positions[i].netqty) # 0 }

\* squareoff_leg: raised names the exception that leaves it, "" for none
SquareoffLeg(pos, fetch, outs, symbol, strike, option_type) ==
    LET positions == GetPositions(pos, fetch)
        matched == MatchedIndexes(positions, symbol, strike, option_type)
    IN  IF matched = {}
        THEN [ raised |-> "ValueError", error |-> "No open position found",
               placed |-> << >>, calls |-> << "get_positions", "position" >> ]
        ELSE LET i == CHOOSE j \in matched : \A k \in matched : j <= k
                 p == positions[i]
                 net_qty == ToInt(p.netqty)
                 order == [ params |-> CloseParams(p), outcome |-> outs[i],
                            index |-> i ]
             IN  IF outs[i] = "raise"
                 THEN [ raised |-> "Exception", error |-> BrokerMessage("raise"),
                        placed |-> << order >>,
                        calls |-> << "get_positions", "position", "placeOrder" >> ]
                 ELSE IF outs[i] # "ok"
                 THEN [ raised |-> "RuntimeError",
                        error |-> BrokerMessage(outs[i]),
                        placed |-> << order >>,
                        calls |-> << "get_positions", "position", "placeOrder" >> ]
                 ELSE [ raised |-> "", error |-> "",
                        tradingsymbol |-> p.tradingsymbol,
                        side |-> IF net_qty > 0 THEN "SELL" ELSE "BUY",
                        qty |-> Abs(net_qty), orderid |-> 1,
                        placed |-> << order >>,
                        calls |-> << "get_positions", "position", "placeOrder" >> ]

\* TotalQty with the number of lots taken as the number of units
TotalQtyInLots(trade) == trade.qty

\* total_qty of place_options_order: lots converted to units
TotalQty(trade) == trade.qty * ANGEL_LOT_SIZES(trade.symbol)

\* place_options_order: the quantity and the trading symbol are computed,
\* then building order_params calls _resolve_token; placeOrder is reached
\* only when that call returns.  out is the outcome the SDK would give.
PlaceOptionsOrder(trade, out, today) ==
    LET total_qty == TotalQty(trade)
        trading_symbol == GetTradingSymbol(trade.symbol, trade.strike,
                                           trade.option_type, today)
        tok == ResolveToken(trading_symbol)
        order == [ params |->
                     [ variety |-> "NORMAL", tradingsymbol |-> trading_symbol,
                       symboltoken |-> tok.token,
                       transactiontype |-> trade.action,
                       exchange |-> "NFO", ordertype |-> "MARKET",
                       producttype |-> "INTRADAY", duration |-> "DAY",
                       quantity |-> NatToStr(total_qty) ],
                   outcome |-> out, index |-> 0 ]
    IN  IF tok.raised
        THEN [ raised |-> tok.error, error |-> "Implement _resolve_token",
               placed |-> << >>,
               calls |-> << "_get_trading_symbol", "_resolve_token" >> ]
        ELSE IF out = "raise"
        THEN [ raised |-> "Exception", error |-> BrokerMessage("raise"),
               placed |-> << order >>,
               calls |-> << "_get_trading_symbol", "_resolve_token",
                            "placeOrder" >> ]
        ELSE IF out # "ok"
        THEN [ raised |-> "RuntimeError", error |-> BrokerMessage(out),
               placed |-> << order >>,
               calls |-> << "_get_trading_symbol", "_resolve_token",
                            "placeOrder" >> ]
        ELSE [ raised |-> "", error |-> "", orderid |-> 1,
               placed |-> << order >>,
               calls |-> << "_get_trading_symbol", "_resolve_token",
                            "placeOrder" >> ]

(***************************************************************************)
(* main.py                                                                 *)
(***************************************************************************)
\* ALLOWED_NUMBERS, as configured for the runs examined here
ALLOWED_NUMBERS == { "919876543210" }

STATUS == <<"S", "T", "A", "T", "U", "S">>

\* format_positions
FormatPositions(positions) ==
    IF positions = << >>
    THEN [ kind |-> "no_positions" ]
    ELSE [ kind |-> "positions",
           lines |-> [ i \in DOMAIN positions |->
                         [ tradingsymbol |-> positions[i].tradingsymbol,
                           netqty |-> positions[i].netqty,
                           averageprice |-> positions[i].averageprice ] ] ]

\* the reply the SQUAREOFF_ALL branch builds from the results list; reading
\* r['side'] of an entry without that key raises KeyError inside the try
\* block, which the except clause turns into the failure reply
SquareoffAllReply(results) ==
    IF results = << >>
    THEN [ kind |-> "squareoff_none" ]
    ELSE IF \E i \in DOMAIN results : "side" \notin DOMAIN results[i]
    THEN [ kind |-> "squareoff_failed", error |-> "'side'" ]
    ELSE [ kind |-> "squareoff_results",
           lines |-> [ i \in DOMAIN results |->
                         [ icon |-> IF results[i].status = "OK" THEN "ok" ELSE "x",
                           tradingsymbol |-> results[i].tradingsymbol,
                           side |-> results[i].side, qty |-> results[i].qty,
                           status |-> results[i].status ] ] ]

\* the risk entry of a command the risk gate did not see
NoRisk == [ ok |-> FALSE, reason |-> "not evaluated", value |-> 0, limit |-> 0 ]

\* What one run of receive_message does between the end of request.json()
\* and its next await: the returned status, the replies handed to
\* send_whatsapp_reply, the components called, the placeOrder calls made
\* with their outcomes, the parsed trade, the risk gate's answer, the
\* outcome of the position fetch ("" when none was made), the list
\* squareoff_all returned, the exception that leaves the handler before a
\* reply is handed over ("" for none), and what became of the POST of the
\* reply ("" while none has ended).  NoOutcome is the run that has done
\* nothing yet.
NoOutcome ==
    [ status |-> "", replies |-> << >>, calls |-> << >>, placed |-> << >>,
      trade |-> None, risk |-> NoRisk, fetch |-> "", results |-> << >>,
      escaped |-> "", sent |-> "" ]

\* Route without the allow-list test
RouteNoAllowList(shape, from_number, body) ==
    LET msg_text == Upper(Strip(body))
    IN  IF shape = "invalid_json"
        THEN [ branch |-> "JSONDecodeError", trade |-> None ]
        ELSE IF shape = "receipt"
        THEN [ branch |-> "no_messages", trade |-> None ]
        ELSE IF shape = "malformed" THEN [ branch |-> "ignored", trade |-> None ]
        ELSE IF shape = "null_body"
        THEN [ branch |-> "AttributeError", trade |-> None ]
        ELSE IF shape = "null_entry"
        THEN [ branch |-> "TypeError", trade |-> None ]
        ELSE IF msg_text = STATUS THEN [ branch |-> "status", trade |-> None ]
        ELSE [ branch |-> "trade", trade |-> parse_command(msg_text) ]

\* Route with the STATUS test made before the allow-list test
RouteStatusFirst(shape, from_number, body) ==
    LET msg_text == Upper(Strip(body))
    IN  IF shape = "invalid_json"
        THEN [ branch |-> "JSONDecodeError", trade |-> None ]
        ELSE IF shape = "receipt"
        THEN [ branch |-> "no_messages", trade |-> None ]
        ELSE IF shape = "malformed" THEN [ branch |-> "ignored", trade |-> None ]
        ELSE IF shape = "null_body"
        THEN [ branch |-> "AttributeError", trade |-> None ]
        ELSE IF shape = "null_entry"
        THEN [ branch |-> "TypeError", trade |-> None ]
        ELSE IF msg_text = STATUS THEN [ branch |-> "status", trade |-> None ]
        ELSE IF from_number \notin ALLOWED_NUMBERS
        THEN [ branch |-> "unauthorised", trade |-> None ]
        ELSE [ branch |-> "trade", trade |-> parse_command(msg_text) ]

\* receive_message up to and including parse_command: the branch taken and
\* the parsed trade.  shape is the shape of the webhook payload: "text" for
\* a text message, "receipt" for a payload without messages, "malformed"
\* for one whose navigation raises KeyError/IndexError, which the handler
\* catches; "null_body" for one whose text body (or value) is null, where
\* .strip() (or .get) raises AttributeError, and "null_entry" for one that
\* holds null or a value of another type where the navigation subscripts,
\* which raises TypeError, and "invalid_json" for a body that request.json()
\* cannot decode: these three are not caught and leave the handler
Route(shape, from_number, body) ==
    LET msg_text == Upper(Strip(body))
    IN  IF shape = "invalid_json"
        THEN [ branch |-> "JSONDecodeError", trade |-> None ]
        ELSE IF shape = "receipt"
        THEN [ branch |-> "no_messages", trade |-> None ]
        ELSE IF shape = "malformed" THEN [ branch |-> "ignored", trade |-> None ]
        ELSE IF shape = "null_body"
        THEN [ branch |-> "AttributeError", trade |-> None ]
        ELSE IF shape = "null_entry"
        THEN [ branch |-> "TypeError", trade |-> None ]
        ELSE IF from_number \notin ALLOWED_NUMBERS
        THEN [ branch |-> "unauthorised", trade |-> None ]
        ELSE IF msg_text = STATUS THEN [ branch |-> "status", trade |-> None ]
        ELSE [ branch |-> "trade", trade |-> parse_command(msg_text) ]

\* the STATUS branch
StatusBranch(from_number, pos, fetch) ==
    [ NoOutcome EXCEPT
        !.status = "ok",
        !.replies = << [ to |-> from_number ]
                         @@ FormatPositions(GetPositions(pos, fetch)) >>,
        !.calls = << "get_positions", "position" >>,
        !.fetch = fetch ]

\* the SQUAREOFF_ALL branch
SquareoffAllBranch(from_number, trade, pos, fetch, outs) ==
    LET r == SquareoffAll(pos, fetch, outs)
    IN  [ NoOutcome EXCEPT
            !.status = "ok",
            !.replies = << [ to |-> from_number ]
                             @@ SquareoffAllReply(r.results) >>,
            !.calls = << "parse_command", "squareoff_all" >> \o r.calls,
            !.placed = r.placed, !.trade = trade, !.fetch = fetch,
            !.results = r.results ]

\* the SQUAREOFF_LEG branch
SquareoffLegBranch(from_number, trade, pos, fetch, outs) ==
    LET r == SquareoffLeg(pos, fetch, outs, trade.symbol, trade.strike,
                          trade.option_type)
        reply == IF r.raised = ""
                 THEN [ kind |-> "leg_closed", orderid |-> r.orderid,
                        side |-> r.side, qty |-> r.qty,
                        tradingsymbol |-> r.tradingsymbol ]
                 ELSE IF r.raised = "ValueError"
                 THEN [ kind |-> "leg_warning", error |-> r.error ]
                 ELSE [ kind |-> "leg_failed", error |-> r.error ]
    IN  [ NoOutcome EXCEPT
            !.status = "ok",
            !.replies = << [ to |-> from_number ] @@ reply >>,
            !.calls = << "parse_command", "squareoff_leg" >> \o r.calls,
            !.placed = r.placed, !.trade = trade, !.fetch = fetch ]

\* ExecuteTrade without the try/except: an exception of place_options_order
\* leaves the handler and no reply is sent
ExecuteTradeNoTry(from_number, trade, risk, out1, today) ==
    LET r == PlaceOptionsOrder(trade, out1, today)
    IN  [ NoOutcome EXCEPT
            !.status = IF r.raised = "" THEN "ok" ELSE "",
            !.replies = IF r.raised = ""
                        THEN << [ to |-> from_number, kind |-> "order_placed",
                                  orderid |-> r.orderid,
                                  action |-> trade.action,
                                  symbol |-> trade.symbol,
                                  strike |-> trade.strike,
                                  option_type |-> trade.option_type,
                                  qty |-> trade.qty ] >>
                        ELSE << >>,
            !.calls = << "parse_command", "risk.check", "place_options_order" >>
                        \o r.calls,
            !.placed = r.placed, !.trade = trade, !.risk = risk,
            !.escaped = r.raised ]

\* the "Execute trade" block with its try/except
ExecuteTrade(from_number, trade, risk, out1, today) ==
    LET r == PlaceOptionsOrder(trade, out1, today)
        reply == IF r.raised = ""
                 THEN [ kind |-> "order_placed", orderid |-> r.orderid,
                        action |-> trade.action, symbol |-> trade.symbol,
                        strike |-> trade.strike,
                        option_type |-> trade.option_type, qty |-> trade.qty ]
                 ELSE [ kind |-> "order_failed", error |-> r.error ]
    IN  [ NoOutcome EXCEPT
            !.status = "ok",
            !.replies = << [ to |-> from_number ] @@ reply >>,
            !.calls = << "parse_command", "risk.check", "place_options_order" >>
                        \o r.calls,
            !.placed = r.placed, !.trade = trade, !.risk = risk ]

\* the risk gate and the BUY/SELL branch
OrderBranch(from_number, trade, out1, mq, mov, today) ==
    LET risk == RiskCheck(trade, mq, mov)
    IN  IF ~ risk.ok
        THEN [ NoOutcome EXCEPT
                 !.status = "risk_rejected",
                 !.replies = << [ to |-> from_number, kind |-> "risk_rejected",
                                  reason |-> risk.reason ] >>,
                 !.calls = << "parse_command", "risk.check" >>,
                 !.trade = trade, !.risk = risk ]
        ELSE ExecuteTrade(from_number, trade, risk, out1, today)

\* receive_message from the routing on: rt is Route's result, fetch and outs
\* are the outcomes the SDK gives the calls made
ReceiveMessage(rt, from_number, pos, fetch, outs, mq, mov, today) ==
    CASE rt.branch = "no_messages" -> [ NoOutcome EXCEPT !.status = "no_messages" ]
      [] rt.branch = "ignored" -> [ NoOutcome EXCEPT !.status = "ignored" ]
      [] rt.branch \in { "JSONDecodeError", "AttributeError", "TypeError" } ->
           [ NoOutcome EXCEPT !.escaped = rt.branch ]
      [] rt.branch = "unauthorised" ->
           [ NoOutcome EXCEPT
               !.status = "unauthorised",
               !.replies = << [ to |-> from_number, kind |-> "unauthorised" ] >> ]
      [] rt.branch = "status" -> StatusBranch(from_number, pos, fetch)
      [] rt.trade = None ->
           [ NoOutcome EXCEPT
               !.status = "parse_error",
               !.replies = << [ to |-> from_number, kind |-> "parse_error" ] >>,
               !.calls = << "parse_command" >> ]
      [] rt.trade.action = "SQUAREOFF_ALL" ->
           SquareoffAllBranch(from_number, rt.trade, pos, fetch, outs)
      [] rt.trade.action = "SQUAREOFF_LEG" ->
           SquareoffLegBranch(from_number, rt.trade, pos, fetch, outs)
      [] OTHER -> OrderBranch(from_number, rt.trade, outs[1], mq, mov, today)

(***************************************************************************)
(* The running process                                                     *)
(***************************************************************************)
VARIABLES
    app,              \* "starting", "serving", or "aborted" (import failed)
    session,          \* the client: "Unauthenticated" or "Authenticated"
    logins,           \* number of generateSession calls made so far
    tokenValid,       \* broker side: the session's token is still accepted
    positions,        \* broker side: the account's position list
    max_qty,          \* risk.max_qty
    max_order_value,  \* risk.max_order_value
    pc,               \* per request: "idle", "reading", "sending"
    req,              \* per request: the webhook payload
    out,              \* per request: what receive_message did
    ptext,            \* the text given to parse_command on its own
    pres              \* the result of that parse_command run

vars == << app, session, logins, tokenValid, positions, max_qty,
           max_order_value, pc, req, out, ptext, pres >>

\* the webhook requests that can be in flight together
Handlers == { "A", "B" }

\* longest position list the broker returns
MaxPos == 2

\* most tokens in a text given to parse_command on its own
MaxTokens == 5

Position(ts, netqty, token) ==
    [ tradingsymbol |-> ts, netqty |-> netqty, symboltoken |-> token,
      exchange |-> "NFO", producttype |-> "INTRADAY", averageprice |-> "120.5" ]

\* the instruments the account may hold: a long, a short and a flat one
PositionUniverse ==
    { Position(<<"N", "I", "F", "T", "Y", "2", "4", "D", "E", "C", "2", "4", "0", "0", "0", "C", "E">>, <<"5", "0">>, "43215"),
      Position(<<"B", "A", "N", "K", "N", "I", "F", "T", "Y", "2", "4", "D", "E", "C", "5", "2", "0", "0", "0", "P", "E">>, <<"-", "1", "5">>, "43310"),
      Position(<<"N", "I", "F", "T", "Y", "2", "4", "D", "E", "C", "2", "5", "0", "0", "0", "C", "E">>, <<"0">>, "43220") }

\* position lists: one entry per instrument, at most MaxPos entries
Snapshots ==
    UNION { { q \in [ 1 .. n -> PositionUniverse ] :
                \A i, j \in 1 .. n : i # j => q[i] # q[j] } : n \in 0 .. MaxPos }

\* (MAX_QTY, MAX_ORDER_VALUE): the defaults of main.py and a raised limit
Policies == { << 100, 100000 >>, << 100, 500000 >> }

\* the dates date.today() gives on the days examined
Dates ==
    { [ year |-> 2024, month |-> 12, day |-> 19 ],
      [ year |-> 2026, month |-> 10, day |-> 31 ] }

Callers == { "919876543210", "910000000000" }

\* message texts sent to the webhook
Bodies ==
    { <<"b", "u", "y", " ", "n", "i", "f", "t", "y", " ", "2", "4", "0", "0", "0", " ", "c", "e", " ", "5", "0">>, <<"B", "U", "Y", " ", "N", "I", "F", "T", "Y", " ", "2", "4", "0", "0", "0", " ", "C", "E", " ", "1">>,
      <<"B", "U", "Y", " ", "N", "I", "F", "T", "Y", " ", "2", "4", "0", "3", "0", " ", "C", "E", " ", "1">>, <<"S", "E", "L", "L", " ", "B", "A", "N", "K", "N", "I", "F", "T", "Y", " ", "5", "2", "0", "0", "0", " ", "P", "E", " ", "1", "0", "1">>,
      <<"B", "U", "Y", " ", "S", "E", "N", "S", "E", "X", " ", "8", "0", "0", "0", "0", " ", "P", "E", " ", "0">>, <<"S", "T", "A", "T", "U", "S">>, <<" ", "s", "q", "u", "a", "r", "e", "o", "f", "f", " ">>,
      <<"S", "Q", "U", "A", "R", "E", "O", "F", "F", " ", "N", "I", "F", "T", "Y", " ", "2", "4", "0", "0", "0", " ", "C", "E">>, <<"S", "Q", "U", "A", "R", "E", "O", "F", "F", " ", "B", "A", "N", "K", "N", "I", "F", "T", "Y", " ", "9", "9", "9", "9", "9", " ", "P", "E">>,
      <<"H", "E", "L", "L", "O">>, <<"U+017F", "t", "a", "t", "u", "s", "U+000D", "\n">>, <<"U+000B", "s", "q", "u", "a", "r", "e", "o", "f", "f", "U+00A0">>,
      <<"B", "U", "Y", " ", "N", "I", "F", "T", "Y", " ", "U+0662", "U+0664", "U+0660", "U+0660", "U+0660", " ", "C", "E", " ", "U+0661">> }

\* the payloads of the webhook: text messages, delivery receipts (no
\* messages) and payloads of an unknown shape, those the handler ignores
\* and those on which it raises
AllRequests ==
    [ shape : { "text" }, from : Callers, body : Bodies ]
      \cup [ shape : { "receipt", "malformed", "null_body", "null_entry",
                        "invalid_json" },
              from : { "" }, body : { << >> } ]

\* Request "A" ranges over all payloads; the request in flight beside it
\* ranges over one command of a stranger and two of the allowed caller
Requests(h) ==
    IF h = "A" THEN AllRequests
    ELSE { [ shape |-> "text", from |-> "910000000000", body |-> <<"S", "T", "A", "T", "U", "S">> ],
           [ shape |-> "text", from |-> "919876543210", body |-> <<"S", "T", "A", "T", "U", "S">> ],
           [ shape |-> "text", from |-> "919876543210",
             body |-> <<"B", "U", "Y", " ", "N", "I", "F", "T", "Y", " ", "2", "4", "0", "0", "0", " ", "C", "E", " ", "1">> ] }

NoRequest == [ shape |-> "none", from |-> "", body |-> << >> ]
NoParse == [ intent |-> None, tried |-> << >> ]

PlaceOutcomes(valid) ==
    IF valid THEN { "ok", "rejected", "raise" } ELSE { "authfail", "raise" }
FetchOutcomes(valid) ==
    IF valid THEN { "ok", "raise" } ELSE { "authfail", "raise" }

Init ==
    /\ app = "starting"
    /\ session = "Unauthenticated"
    /\ logins = 0
    /\ tokenValid = FALSE
    /\ positions \in Snapshots
    /\ \E p \in Policies : max_qty = p[1] /\ max_order_value = p[2]
    /\ pc = [ h \in Handlers |-> "idle" ]
    /\ req = [ h \in Handlers |-> NoRequest ]
    /\ out = [ h \in Handlers |-> NoOutcome ]
    /\ ptext = << >>
    /\ pres = NoParse

\* Startup that goes on to serve after a rejected login
StartupServesAnyway ==
    /\ app = "starting"
    /\ logins' = logins + 1
    /\ \E granted \in BOOLEAN :
         IF granted
         THEN /\ session' = "Authenticated"
              /\ tokenValid' = TRUE
              /\ app' = "serving"
         ELSE /\ session' = session
              /\ tokenValid' = tokenValid
              /\ app' = "serving"
    /\ UNCHANGED << positions, max_qty, max_order_value, pc, req, out,
                    ptext, pres >>

\* AngelOneClient.__init__ -> _login at import of main.py: generateSession
\* either grants a session or rejects, and a rejection raises out of import
Startup ==
    /\ app = "starting"
    /\ logins' = logins + 1
    /\ \E granted \in BOOLEAN :
         IF granted
         THEN /\ session' = "Authenticated"
              /\ tokenValid' = TRUE
              /\ app' = "serving"
         ELSE /\ session' = session
              /\ tokenValid' = tokenValid
              /\ app' = "aborted"
    /\ UNCHANGED << positions, max_qty, max_order_value, pc, req, out,
                    ptext, pres >>

\* the broker expires the session token
ExpireSession ==
    /\ app = "serving"
    /\ tokenValid
    /\ tokenValid' = FALSE
    /\ UNCHANGED << app, session, logins, positions, max_qty,
                    max_order_value, pc, req, out, ptext, pres >>

\* Meta posts a webhook; the handler starts and awaits request.json()
Arrive(h) ==
    /\ app = "serving"
    /\ pc[h] = "idle"
    /\ \E r \in Requests(h) : req' = [ req EXCEPT ![h] = r ]
    /\ pc' = [ pc EXCEPT ![h] = "reading" ]
    /\ UNCHANGED << app, session, logins, tokenValid, positions, max_qty,
                    max_order_value, out, ptext, pres >>

\* receive_message from the end of request.json() to its next await: the
\* call of send_whatsapp_reply, or the return when no reply is sent
Process(h) ==
    /\ pc[h] = "reading"
    /\ \E rt \in { Route(req[h].shape, req[h].from, req[h].body) } :
           \E fetch \in FetchOutcomes(tokenValid) :
           \E outs \in [ 1 .. (IF positions = << >> THEN 1 ELSE Len(positions))
                           -> PlaceOutcomes(tokenValid) ] :
           \E today \in Dates :
           \E o \in { ReceiveMessage(rt, req[h].from, positions, fetch, outs,
                                     max_qty, max_order_value, today) } :
             /\ out' = [ out EXCEPT ![h] = o ]
             /\ pc' = [ pc EXCEPT ![h] =
                          IF o.replies = << >> \/ o.escaped # ""
                          THEN "returned" ELSE "sending" ]
    /\ UNCHANGED << app, session, logins, tokenValid, positions, max_qty,
                    max_order_value, req, ptext, pres >>

\* what the POST to the Graph API does: answers 200, answers another
\* status (logged only), or raises (no connection, timeout)
SendOutcomes == { "delivered", "refused", "raise" }

\* the POST of send_whatsapp_reply ends: receive_message returns its
\* status, or the exception of the POST leaves the handler
ReplyDone(h) ==
    /\ pc[h] = "sending"
    /\ \E d \in SendOutcomes :
         out' = [ out EXCEPT ![h].sent = d,
                             ![h].status = IF d = "raise" THEN "" ELSE @ ]
    /\ pc' = [ pc EXCEPT ![h] = "returned" ]
    /\ UNCHANGED << app, session, logins, tokenValid, positions, max_qty,
                    max_order_value, req, ptext, pres >>

\* the response has gone back to Meta; the slot is free for the next webhook
Finish(h) ==
    /\ pc[h] = "returned"
    /\ pc' = [ pc EXCEPT ![h] = "idle" ]
    /\ req' = [ req EXCEPT ![h] = NoRequest ]
    /\ out' = [ out EXCEPT ![h] = NoOutcome ]
    /\ UNCHANGED << app, session, logins, tokenValid, positions, max_qty,
                    max_order_value, ptext, pres >>

Next ==
    \/ Startup
    \/ ExpireSession
    \/ \E h \in Handlers : Arrive(h)
    \/ \E h \in Handlers : Process(h)
    \/ \E h \in Handlers : ReplyDone(h)
    \/ \E h \in Handlers : Finish(h)

Spec == Init /\ [][Next]_vars

(***************************************************************************)
(* parse_command run on its own over a family of texts                     *)
(***************************************************************************)
\* the words tried in the k-th place of a text
Vocabulary(k) ==
    CASE k = 1 -> { <<"B", "U", "Y">>, <<"s", "e", "l", "l">>, <<"S", "Q", "U", "A", "R", "E", "O", "F", "F">>, <<"U+017F", "q", "u", "a", "r", "e", "o", "f", "f">>,
                    <<"S", "T", "A", "T", "U", "S">> }
      [] k = 2 -> { <<"N", "I", "F", "T", "Y">>, <<"b", "a", "n", "k", "n", "i", "f", "t", "y">>, <<"X", "Y", "Z">>, <<"N", "I", "F", "T", "Y", "5", "0">> }
      [] k = 3 -> { <<"2", "4", "0", "0", "0">>, <<"U+0662", "U+0664", "U+0660", "U+0660", "U+0660">>, <<"0", "0", "0", "0">>,
                    <<"2", "4", "0">>, <<"1", "2", "3", "4", "5", "6", "7">> }
      [] k = 4 -> { <<"C", "E">>, <<"p", "e">>, <<"X", "X">> }
      [] k = 5 -> { <<"5", "0">>, <<"U+0661">>, <<"0">>, <<"5", "X">> }
      [] OTHER -> { <<"7">> }

\* between the words: a space, a tab, a carriage return, a no-break space,
\* nothing
Separators == { <<" ">>, <<"\t">>, <<"U+000D">>, <<"U+00A0">>, << >> }
\* around the text: nothing, or a space and the line end of a form post
Paddings == { << >>, <<" ", "U+000D", "\n">> }

RECURSIVE Join(_, _)
Join(words, sep) ==
    IF words = << >> THEN << >>
    ELSE IF Len(words) = 1 THEN words[1]
    ELSE words[1] \o sep \o Join(Tail(words), sep)

\* the lists of n words, the k-th from Vocabulary(k)
RECURSIVE WordLists(_)
WordLists(n) ==
    IF n = 0 THEN { << >> }
    ELSE { Append(w, v) : w \in WordLists(n - 1), v \in Vocabulary(n) }

ParseInputs ==
    UNION { { pad \o Join(w, sep) \o pad :
                w \in WordLists(n), sep \in Separators, pad \in Paddings } :
            n \in 0 .. MaxTokens }

InitParse ==
    /\ app = "starting"
    /\ session = "Unauthenticated"
    /\ logins = 0
    /\ tokenValid = FALSE
    /\ positions = << >>
    /\ max_qty = 100
    /\ max_order_value = 100000
    /\ pc = [ h \in Handlers |-> "idle" ]
    /\ req = [ h \in Handlers |-> NoRequest ]
    /\ out = [ h \in Handlers |-> NoOutcome ]
    /\ ptext \in ParseInputs
    /\ pres = NoParse

\* parse_command(ptext)
ParseStep ==
    /\ pres = NoParse
    /\ pres' = ParseRun(ptext)
    /\ UNCHANGED << app, session, logins, tokenValid, positions, max_qty,
                    max_order_value, pc, req, out, ptext >>

NextParse == ParseStep

SpecParse == InitParse /\ [][NextParse]_vars

(***************************************************************************)
(* The grammar of the commands, stated on the words of a text              *)
(***************************************************************************)
\* length of the first word of s (s starts with a non-space character)
RECURSIVE WordLen(_)
WordLen(s) ==
    IF s = << >> \/ s[1] \in ClassSpace THEN 0 ELSE 1 + WordLen(Tail(s))

\* the words of s: its maximal runs of non-space characters
RECURSIVE Words(_)
Words(s) ==
    IF s = << >> THEN << >>
    ELSE IF s[1] \in ClassSpace THEN Words(Tail(s))
    ELSE << SubSeq(s, 1, WordLen(s)) >>
           \o Words(SubSeq(s, WordLen(s) + 1, Len(s)))

RECURSIVE Pow10(_)
Pow10(n) == IF n = 0 THEN 1 ELSE 10 * Pow10(n - 1)

\* the number a word of digits denotes: the sum of digit * 10^place
RECURSIVE PlaceSum(_, _)
PlaceSum(w, i) ==
    IF i > Len(w) THEN 0
    ELSE DigitVal(w[i]) * Pow10(Len(w) - i) + PlaceSum(w, i + 1)

IsSymbolWord(w) == w # << >> /\ \A i \in DOMAIN w : w[i] \in ClassAZ
IsStrikeWord(w) ==
    Len(w) \in 4 .. 6 /\ \A i \in DOMAIN w : w[i] \in Range(DigitChars)
IsQtyWord(w) == w # << >> /\ \A i \in DOMAIN w : w[i] \in ClassDigit
IsOptionWord(w) == w \in { <<"C", "E">>, <<"P", "E">> }

\* the grammar rule whose shape the text has, whatever the symbol is: the
\* words are told apart by whitespace after case normalisation, the strike
\* is 4 to 6 ASCII digits, the quantity one or more digits
GrammarRule(t) ==
    LET w == Words(Upper(t))
    IN  IF w = << <<"S", "Q", "U", "A", "R", "E", "O", "F", "F">> >> THEN "SQUAREOFF"
        ELSE IF /\ Len(w) = 4 /\ w[1] = <<"S", "Q", "U", "A", "R", "E", "O", "F", "F">> /\ IsSymbolWord(w[2])
                /\ IsStrikeWord(w[3]) /\ IsOptionWord(w[4])
        THEN "SQUAREOFF_LEG"
        ELSE IF /\ Len(w) = 5 /\ w[1] \in { <<"B", "U", "Y">>, <<"S", "E", "L", "L">> }
                /\ IsSymbolWord(w[2]) /\ IsStrikeWord(w[3])
                /\ IsOptionWord(w[4]) /\ IsQtyWord(w[5])
        THEN "ORDER"
        ELSE "none"

\* the intent the grammar gives the text
GrammarIntent(t) ==
    LET w == Words(Upper(t))
        rule == GrammarRule(t)
    IN  IF rule = "SQUAREOFF" THEN [ action |-> "SQUAREOFF_ALL" ]
        ELSE IF rule = "SQUAREOFF_LEG" /\ w[2] \in VALID_SYMBOLS
        THEN [ action |-> "SQUAREOFF_LEG", symbol |-> w[2],
               strike |-> PlaceSum(w[3], 1), option_type |-> w[4] ]
        ELSE IF rule = "ORDER" /\ w[2] \in VALID_SYMBOLS
        THEN [ action |-> IF w[1] = <<"B", "U", "Y">> THEN "BUY" ELSE "SELL",
               symbol |-> w[2], strike |-> PlaceSum(w[3], 1),
               option_type |-> w[4], qty |-> PlaceSum(w[5], 1) ]
        ELSE None

RuleOrder == << "SQUAREOFF_ALL", "SQUAREOFF_LEG", "COMMAND" >>

\* parse_command has run on ptext
Parsed == pres.tried # << >>

\* C10: parse_command returns an intent exactly when the text has the shape
\* of a grammar rule (SQUAREOFF, SQUAREOFF-leg, BUY/SELL) with a valid
\* symbol, its fields are the matched words, otherwise it returns no intent;
\* the rules are tried in that order, and a SQUAREOFF-leg text with an
\* invalid symbol yields no intent without the BUY/SELL rule being tried.
C10_ParseFollowsGrammar ==
    Parsed =>
      /\ pres.intent = GrammarIntent(ptext)
      /\ pres.tried = SubSeq(RuleOrder, 1, Len(pres.tried))
      /\ ( GrammarRule(ptext) = "SQUAREOFF" => pres.tried = SubSeq(RuleOrder, 1, 1) )
      /\ ( GrammarRule(ptext) = "ORDER" => pres.tried = RuleOrder )
      /\ ( GrammarRule(ptext) = "SQUAREOFF_LEG"
             => pres.tried = SubSeq(RuleOrder, 1, 2) )

(***************************************************************************)
(* Properties of the pipeline                                              *)
(***************************************************************************)
\* receive_message has run for request h up to its reply
Done(h) == pc[h] \in { "sending", "returned" }

\* request h carries a text message of an identified caller
IsCommand(h) == req[h].shape = "text"

\* the calls of component c made for request h
CallCount(h, c) == Cardinality({ i \in DOMAIN out[h].calls : out[h].calls[i] = c })
Called(h, c) == CallCount(h, c) > 0

\* the risk policy of section 4.2 on an open order, under the configured limits
PolicyOk(trade) ==
    /\ trade.qty > 0
    /\ trade.qty <= max_qty
    /\ trade.strike % 50 = 0
    /\ trade.qty * RISK_LOT_SIZES(trade.symbol) * APPROX_PREMIUMS(trade.symbol)
         <= max_order_value

\* C1: a BUY/SELL order goes to the order placement (and to the broker)
\* only from a command the risk gate accepted under the configured policy;
\* a risk-rejected command places nothing; SQUAREOFF and SQUAREOFF-leg
\* commands are never evaluated by the risk gate.
C1_OrdersPassRiskGate ==
    \A h \in Handlers : Done(h) =>
      /\ ( Called(h, "place_options_order")
             \/ \E i \in DOMAIN out[h].placed : out[h].placed[i].index = 0 )
           => /\ out[h].trade.action \in { "BUY", "SELL" }
              /\ Called(h, "risk.check")
              /\ out[h].risk.ok
              /\ PolicyOk(out[h].trade)
      /\ out[h].status = "risk_rejected"
           => /\ out[h].placed = << >>
              /\ ~ Called(h, "place_options_order")
              /\ ~ Called(h, "placeOrder")
              /\ ~ PolicyOk(out[h].trade)
      /\ out[h].trade.action \in { "SQUAREOFF_ALL", "SQUAREOFF_LEG" }
           => /\ ~ Called(h, "risk.check")
              /\ out[h].status # "risk_rejected"
              /\ out[h].risk = NoRisk

\* an open order has passed the risk gate and gone to the order placement
C1_Witness ==
    \E h \in Handlers :
      /\ Done(h)
      /\ out[h].trade.action \in { "BUY", "SELL" }
      /\ out[h].risk.ok
      /\ Called(h, "place_options_order")

\* C2: a message of a caller outside the allow-list gets exactly one
\* "unauthorised" reply, and neither the parser, the risk gate nor any
\* broker operation (positions, placeOrder, token resolution, login) runs.
C2_StrangerOnlyRejected ==
    \A h \in Handlers :
      ( Done(h) /\ IsCommand(h) /\ req[h].from \notin ALLOWED_NUMBERS ) =>
        /\ out[h].replies = << [ to |-> req[h].from, kind |-> "unauthorised" ] >>
        /\ out[h].calls = << >>
        /\ out[h].placed = << >>
        /\ out[h].fetch = ""
        /\ out[h].trade = None
        /\ out[h].risk = NoRisk
        /\ logins = 1

\* a stranger has sent a text that is a valid command, and has been rejected
C2_Witness ==
    \E h \in Handlers :
      /\ Done(h) /\ IsCommand(h)
      /\ req[h].from \notin ALLOWED_NUMBERS
      /\ req[h].body = <<"S", "Q", "U", "A", "R", "E", "O", "F", "F", " ", "N", "I", "F", "T", "Y", " ", "2", "4", "0", "0", "0", " ", "C", "E">>
      /\ out[h].status = "unauthorised"

\* a broker call made for request h failed because the token is expired
AuthFailed(h) ==
    \/ out[h].fetch = "authfail"
    \/ \E i \in DOMAIN out[h].placed : out[h].placed[i].outcome = "authfail"

\* C3: when a broker operation fails because the session is expired, the
\* client logs in again and retries that operation once before the outcome
\* is reported.
C3_ReloginAndRetry ==
    \A h \in Handlers : ( Done(h) /\ AuthFailed(h) ) =>
      /\ Called(h, "_login")
      /\ logins >= 2
      /\ CallCount(h, "position") + CallCount(h, "placeOrder") >= 2

\* C4: within one command placeOrder is invoked at most once for an open
\* order or a leg, at most once per position of the snapshot for a
\* squareoff-all, and a call that failed is never issued again.
C4_NoPlacementRetry ==
    \A h \in Handlers : Done(h) =>
      /\ CallCount(h, "placeOrder") = Len(out[h].placed)
      /\ \A i, j \in DOMAIN out[h].placed :
           i # j => out[h].placed[i].index # out[h].placed[j].index
      /\ IF out[h].trade.action = "SQUAREOFF_ALL"
         THEN Len(out[h].placed) <= Len(positions)
         ELSE Len(out[h].placed) <= 1
      /\ out[h].trade = None => out[h].placed = << >>

\* a squareoff-all has made a placeOrder call that timed out
C4_Witness ==
    \E h \in Handlers :
      /\ Done(h)
      /\ out[h].trade.action = "SQUAREOFF_ALL"
      /\ \E i \in DOMAIN out[h].placed : out[h].placed[i].outcome = "raise"

\* C5: every command of an identified caller gets exactly one reply, to
\* that caller, on every branch and whatever the broker calls do, and no
\* error of the processing leaves the handler: unless the POST of the reply
\* itself raises, the handler returns its status.
C5_ExactlyOneReply ==
    \A h \in Handlers : ( Done(h) /\ IsCommand(h) ) =>
      /\ Len(out[h].replies) = 1
      /\ out[h].replies[1].to = req[h].from
      /\ out[h].escaped = ""
      /\ out[h].sent # "raise" =>
           out[h].status \in { "unauthorised", "ok", "parse_error", "risk_rejected" }

\* a placeOrder call has raised and the command has got its failure reply
C5_Witness ==
    \E h \in Handlers :
      /\ Done(h) /\ IsCommand(h)
      /\ \E i \in DOMAIN out[h].placed : out[h].placed[i].outcome = "raise"
      /\ Len(out[h].replies) = 1
      /\ out[h].replies[1].kind \in { "leg_failed", "squareoff_failed" }

\* the positions of a list that are not flat, by the digits of netqty
NonFlat(ps) ==
    { i \in DOMAIN ps :
        \E k \in DOMAIN ps[i].netqty : ps[i].netqty[k] \in ClassDigit \ { "0" } }

\* C6: squareoff-all goes through the snapshot in order; a failed or raising
\* placeOrder does not stop it: every non-flat position gets its closing
\* order attempted, and the results list has one entry per non-flat
\* position, in snapshot order.
C6_SquareoffAllCoversEveryLeg ==
    \A h \in Handlers :
      ( Done(h) /\ out[h].trade.action = "SQUAREOFF_ALL" /\ out[h].fetch = "ok" ) =>
        /\ Len(out[h].placed) = Cardinality(NonFlat(positions))
        /\ Len(out[h].results) = Cardinality(NonFlat(positions))
        /\ \A k \in DOMAIN out[h].placed :
             /\ out[h].placed[k].index \in NonFlat(positions)
             /\ out[h].placed[k].params.tradingsymbol
                  = positions[out[h].placed[k].index].tradingsymbol
             /\ out[h].results[k].tradingsymbol
                  = positions[out[h].placed[k].index].tradingsymbol
             /\ \A j \in DOMAIN out[h].placed :
                  k < j => out[h].placed[k].index < out[h].placed[j].index

\* the first leg of a squareoff-all failed and a later leg was still placed
C6_Witness ==
    \E h \in Handlers :
      /\ Done(h)
      /\ out[h].trade.action = "SQUAREOFF_ALL"
      /\ Len(out[h].placed) >= 2
      /\ out[h].placed[1].outcome # "ok"
      /\ Len(out[h].results) = Len(out[h].placed)

\* C7: when some legs of a squareoff-all succeed and at least one fails, the
\* one reply lists the outcome of every leg.
C7_ReplyListsEveryLeg ==
    \A h \in Handlers :
      ( /\ Done(h)
        /\ out[h].trade.action = "SQUAREOFF_ALL"
        /\ \E i \in DOMAIN out[h].placed : out[h].placed[i].outcome = "ok"
        /\ \E i \in DOMAIN out[h].placed : out[h].placed[i].outcome # "ok" ) =>
        /\ Len(out[h].replies) = 1
        /\ out[h].replies[1].kind = "squareoff_results"
        /\ Len(out[h].replies[1].lines) = Len(out[h].placed)
        /\ \A k \in DOMAIN out[h].placed :
             /\ out[h].replies[1].lines[k].tradingsymbol
                  = out[h].placed[k].params.tradingsymbol
             /\ ( out[h].replies[1].lines[k].icon = "ok"
                    <=> out[h].placed[k].outcome = "ok" )

\* C8: the allowed caller's "buy nifty 24000 ce 50" is parsed to
\* OpenOrder{BUY, NIFTY, 24000, CE, 50}, passes the risk gate, places exactly
\* one order, and when the broker accepts it the reply carries the order id.
C8_EndToEndOrder ==
    \A h \in Handlers :
      ( /\ Done(h) /\ IsCommand(h)
        /\ req[h].from \in ALLOWED_NUMBERS
        /\ req[h].body = <<"b", "u", "y", " ", "n", "i", "f", "t", "y", " ", "2", "4", "0", "0", "0", " ", "c", "e", " ", "5", "0">> ) =>
        /\ out[h].trade = [ action |-> "BUY", symbol |-> NIFTY, strike |-> 24000,
                            option_type |-> <<"C", "E">>, qty |-> 50 ]
        /\ out[h].risk.ok
        /\ Len(out[h].placed) = 1
        /\ out[h].placed[1].outcome = "ok"
             => /\ out[h].replies[1].kind = "order_placed"
                /\ out[h].replies[1].orderid > 0

\* a broker call made for request h failed
BrokerFailed(h) ==
    \/ out[h].fetch \in { "raise", "authfail" }
    \/ \E i \in DOMAIN out[h].placed : out[h].placed[i].outcome # "ok"

\* the reply kinds that tell the caller of a failure
FailureKinds == { "squareoff_failed", "leg_failed", "order_failed" }

\* C9: when a broker call made for a STATUS, squareoff or open-order command
\* fails, the reply reports the failure; a failed position fetch is never
\* reported as "no open positions".
C9_BrokerFailureReported ==
    \A h \in Handlers : ( Done(h) /\ IsCommand(h) /\ BrokerFailed(h) ) =>
      /\ Len(out[h].replies) = 1
      /\ \/ out[h].replies[1].kind \in FailureKinds
         \/ /\ out[h].replies[1].kind = "squareoff_results"
            /\ out[h].fetch = "ok"
            /\ \A k \in DOMAIN out[h].placed :
                 out[h].placed[k].outcome # "ok"
                   => out[h].replies[1].lines[k].icon = "x"

(***************************************************************************)
(* Properties of the intents parse_command returns                         *)
(***************************************************************************)
\* C11: parse_command applied to the exact literal STATUS returns the
\* StatusQuery intent, not "no intent".
C11_StatusIsAnIntent ==
    ( Parsed /\ ptext = STATUS ) =>
      /\ pres.intent # None
      /\ pres.intent.action = "STATUS"

\* C12: every intent parse_command returns has a valid symbol, option type
\* CE or PE, a positive strike and, for an open order, a positive quantity;
\* no text yields an intent with strike 0 or quantity 0.
C12_IntentInvariant ==
    ( Parsed /\ pres.intent # None /\ pres.intent.action # "SQUAREOFF_ALL" ) =>
      /\ pres.intent.symbol \in VALID_SYMBOLS
      /\ pres.intent.option_type \in { <<"C", "E">>, <<"P", "E">> }
      /\ pres.intent.strike > 0
      /\ pres.intent.action \in { "BUY", "SELL" } => pres.intent.qty > 0

(***************************************************************************)
(* The squareoff commands over accounts that hold several expiries of one  *)
(* leg                                                                     *)
(***************************************************************************)
\* a long and a short position of the same strike and type in two expiries,
\* a flat position of that leg in a third, and a flat one of another strike
CloseUniverse ==
    { Position(<<"N", "I", "F", "T", "Y", "2", "4", "D", "E", "C", "2", "4", "0", "0", "0", "C", "E">>, <<"5", "0">>, "43215"),
      Position(<<"N", "I", "F", "T", "Y", "2", "5", "J", "A", "N", "2", "4", "0", "0", "0", "C", "E">>, <<"-", "5", "0">>, "51215"),
      Position(<<"N", "I", "F", "T", "Y", "2", "4", "N", "O", "V", "2", "4", "0", "0", "0", "C", "E">>, <<"0">>, "39215"),
      Position(<<"N", "I", "F", "T", "Y", "2", "4", "D", "E", "C", "2", "5", "0", "0", "0", "C", "E">>, <<"0">>, "43220") }

CloseSnapshots ==
    UNION { { q \in [ 1 .. n -> CloseUniverse ] :
                \A i, j \in 1 .. n : i # j => q[i] # q[j] } : n \in 0 .. MaxPos }

CloseBodies ==
    { <<"S", "Q", "U", "A", "R", "E", "O", "F", "F">>, <<"S", "Q", "U", "A", "R", "E", "O", "F", "F", " ", "N", "I", "F", "T", "Y", " ", "2", "4", "0", "0", "0", " ", "C", "E">>, <<"S", "Q", "U", "A", "R", "E", "O", "F", "F", " ", "N", "I", "F", "T", "Y", " ", "2", "5", "0", "0", "0", " ", "C", "E">>,
      <<"S", "Q", "U", "A", "R", "E", "O", "F", "F", " ", "B", "A", "N", "K", "N", "I", "F", "T", "Y", " ", "2", "4", "0", "0", "0", " ", "C", "E">>, <<"S", "Q", "U", "A", "R", "E", "O", "F", "F", " ", "N", "I", "F", "T", "Y", " ", "4", "0", "0", "0", " ", "C", "E">> }

\* request "A" is any squareoff command of the allowed caller; the request
\* beside it is a squareoff-all run against the same account
CloseRequests(h) ==
    IF h = "A"
    THEN [ shape : { "text" }, from : { "919876543210" }, body : CloseBodies ]
    ELSE { [ shape |-> "text", from |-> "919876543210", body |-> <<"S", "Q", "U", "A", "R", "E", "O", "F", "F">> ] }

\* the process is up, logged in, with the default limits
InitClose ==
    /\ app = "serving"
    /\ session = "Authenticated"
    /\ logins = 1
    /\ tokenValid = TRUE
    /\ positions \in CloseSnapshots
    /\ max_qty = 100
    /\ max_order_value = 100000
    /\ pc = [ h \in Handlers |-> "idle" ]
    /\ req = [ h \in Handlers |-> NoRequest ]
    /\ out = [ h \in Handlers |-> NoOutcome ]
    /\ ptext = << >>
    /\ pres = NoParse

\* Meta posts a squareoff command; the handler awaits request.json()
ArriveClose(h) ==
    /\ app = "serving"
    /\ pc[h] = "idle"
    /\ \E r \in CloseRequests(h) : req' = [ req EXCEPT ![h] = r ]
    /\ pc' = [ pc EXCEPT ![h] = "reading" ]
    /\ UNCHANGED << app, session, logins, tokenValid, positions, max_qty,
                    max_order_value, out, ptext, pres >>

NextClose ==
    \/ \E h \in Handlers : ArriveClose(h)
    \/ \E h \in Handlers : Process(h)
    \/ \E h \in Handlers : ReplyDone(h)
    \/ \E h \in Handlers : Finish(h)

SpecClose == InitClose /\ [][NextClose]_vars

\* request h is a squareoff-all that has run on the account's position list
RanSquareoffAll(h) ==
    Done(h) /\ out[h].trade.action = "SQUAREOFF_ALL" /\ out[h].fetch = "ok"

\* the net quantity of a position, read from its sign and its digits
SignedQty(p) ==
    IF p.netqty[1] = "-" THEN 0 - PlaceSum(Tail(p.netqty), 1)
    ELSE PlaceSum(p.netqty, 1)

\* the net quantity a position has once the order is filled
AfterFill(p, params) ==
    IF params.transactiontype = "SELL"
    THEN SignedQty(p) - PlaceSum(params.quantity, 1)
    ELSE SignedQty(p) + PlaceSum(params.quantity, 1)

\* C13: squareoff-all emits exactly one closing order for each position with
\* netQty # 0 and none for a flat one; the order sells abs(netQty) of a long
\* position and buys abs(netQty) of a short one, so that filling it leaves
\* net zero; a second run on the unchanged snapshot emits the same orders.
C13_ClosingOrders ==
    /\ \A h \in Handlers : RanSquareoffAll(h) =>
         /\ \A i \in DOMAIN positions :
              Cardinality({ k \in DOMAIN out[h].placed :
                              out[h].placed[k].index = i })
                = IF SignedQty(positions[i]) # 0 THEN 1 ELSE 0
         /\ \A k \in DOMAIN out[h].placed :
              LET p == positions[out[h].placed[k].index]
                  o == out[h].placed[k].params
              IN  /\ o.tradingsymbol = p.tradingsymbol
                  /\ o.symboltoken = p.symboltoken
                  /\ o.transactiontype = IF SignedQty(p) > 0 THEN "SELL" ELSE "BUY"
                  /\ PlaceSum(o.quantity, 1) = Abs(SignedQty(p))
                  /\ AfterFill(p, o) = 0
    /\ \A g, h \in Handlers : ( RanSquareoffAll(g) /\ RanSquareoffAll(h) ) =>
         [ k \in DOMAIN out[g].placed |-> out[g].placed[k].params ]
           = [ k \in DOMAIN out[h].placed |-> out[h].placed[k].params ]

\* two squareoff-all runs on a list holding a flat, a long and/or a short
\* position have placed their orders, with different outcomes at the broker
C13_Witness ==
    /\ RanSquareoffAll("A") /\ RanSquareoffAll("B")
    /\ \E i \in DOMAIN positions : SignedQty(positions[i]) = 0
    /\ out["A"].placed # << >>
    /\ out["A"].placed[1].params.transactiontype = "BUY"
    /\ out["A"].placed[1].outcome # out["B"].placed[1].outcome

\* the positions that match the leg of request h: the trading symbol starts
\* with the symbol and ends with the strike and option type as typed, and
\* the position is not flat
LegMatches(h) ==
    LET w == Words(Upper(req[h].body))
        sym == w[2]
        suf == w[3] \o w[4]
    IN  { i \in DOMAIN positions :
            LET ts == positions[i].tradingsymbol
            IN  /\ Len(ts) >= Len(sym) /\ Len(ts) >= Len(suf)
                /\ \A j \in DOMAIN sym : ts[j] = sym[j]
                /\ \A j \in DOMAIN suf : ts[Len(ts) - Len(suf) + j] = suf[j]
                /\ SignedQty(positions[i]) # 0 }

\* request h is a squareoff-leg that has run on the account's position list
RanSquareoffLeg(h) ==
    Done(h) /\ out[h].trade.action = "SQUAREOFF_LEG" /\ out[h].fetch = "ok"

\* C14: squareoff-leg places exactly one closing order, for the first
\* position in snapshot order that matches the leg and is not flat; when no
\* position matches it places no order and the caller gets the not-found
\* warning, which is not the broker-failure reply.
C14_LegClosesFirstMatch ==
    \A h \in Handlers : RanSquareoffLeg(h) =>
      IF LegMatches(h) = {}
      THEN /\ out[h].placed = << >>
           /\ out[h].replies[1].kind = "leg_warning"
           /\ out[h].replies[1].error = "No open position found"
      ELSE /\ Len(out[h].placed) = 1
           /\ out[h].placed[1].index \in LegMatches(h)
           /\ \A i \in LegMatches(h) : out[h].placed[1].index <= i
           /\ out[h].placed[1].params.tradingsymbol
                = positions[out[h].placed[1].index].tradingsymbol
           /\ AfterFill(positions[out[h].placed[1].index],
                        out[h].placed[1].params) = 0
           /\ out[h].replies[1].kind
                = IF out[h].placed[1].outcome = "ok" THEN "leg_closed"
                  ELSE "leg_failed"

\* a leg held in two expiries, behind a flat position of the same leg, has
\* been closed in the first expiry that is not flat
C14_Witness ==
    \E h \in Handlers :
      /\ RanSquareoffLeg(h)
      /\ Cardinality(LegMatches(h)) >= 1
      /\ out[h].placed # << >>
      /\ out[h].placed[1].index = 2
      /\ SignedQty(positions[1]) = 0
      /\ EndsWith(positions[1].tradingsymbol, <<"2", "4", "0", "0", "0", "C", "E">>)
      /\ out[h].replies[1].kind = "leg_closed"

(***************************************************************************)
(* RiskGate.check as a function of the trade and the configured limits     *)
(***************************************************************************)
\* the trades main.py can hand to risk.check, and one whose symbol is not
\* in the tables of risk_gate.py
RiskTrades ==
    [ action : { "BUY", "SELL" },
      symbol : VALID_SYMBOLS \cup { <<"X", "Y", "Z">> },
      strike : { 0, 24000, 24030 },
      option_type : { <<"C", "E">> },
      qty : { 0, 1, 10, 11, 13, 14, 100, 101 } ]

\* the limits RiskGate is constructed with
RiskPolicies == { << 100, 100000 >>, << 10, 100000 >>, << 100, 500000 >> }

InitRisk ==
    /\ app = "serving"
    /\ session = "Authenticated"
    /\ logins = 1
    /\ tokenValid = TRUE
    /\ positions = << >>
    /\ \E p \in RiskPolicies : max_qty = p[1] /\ max_order_value = p[2]
    /\ pc = [ h \in Handlers |-> "idle" ]
    /\ req = [ h \in Handlers |-> NoRequest ]
    /\ \E t \in RiskTrades :
         out = [ h \in Handlers |->
                   IF h = "A" THEN [ NoOutcome EXCEPT !.trade = t ] ELSE NoOutcome ]
    /\ ptext = << >>
    /\ pres = NoParse

\* one call risk.check(trade)
CheckStep ==
    /\ pc["A"] = "idle"
    /\ out' = [ out EXCEPT !["A"].risk =
                  RiskCheck(out["A"].trade, max_qty, max_order_value) ]
    /\ pc' = [ pc EXCEPT !["A"] = "returned" ]
    /\ UNCHANGED << app, session, logins, tokenValid, positions, max_qty,
                    max_order_value, req, ptext, pres >>

\* main.py hands a trade the gate accepted to place_options_order
PlaceStep ==
    /\ pc["A"] = "returned"
    /\ out["A"].risk.ok
    /\ \E o \in PlaceOutcomes(tokenValid), today \in Dates :
         out' = [ out EXCEPT !["A"] =
                    ExecuteTrade("919876543210", out["A"].trade,
                                 out["A"].risk, o, today) ]
    /\ pc' = [ pc EXCEPT !["A"] = "sending" ]
    /\ UNCHANGED << app, session, logins, tokenValid, positions, max_qty,
                    max_order_value, req, ptext, pres >>

NextRisk == CheckStep \/ PlaceStep

SpecRisk == InitRisk /\ [][NextRisk]_vars

\* risk.check has been called on the trade
Checked == pc["A"] = "returned" /\ out["A"].trade # None

\* lot size and approximate premium per symbol, as the reference table of
\* the gate gives them
ReferenceTable ==
    { << NIFTY, 50, 150 >>, << BANKNIFTY, 15, 300 >>, << FINNIFTY, 40, 100 >>,
      << MIDCPNIFTY, 75, 80 >>, << SENSEX, 10, 200 >> }

\* the row of the table for a symbol, or the fallback row
ReferenceRow(symbol) ==
    IF \E r \in ReferenceTable : r[1] = symbol
    THEN CHOOSE r \in ReferenceTable : r[1] = symbol
    ELSE << symbol, 50, 200 >>

\* the four checks in their order, for the trade of the call
FourChecks ==
    LET t == out["A"].trade
        row == ReferenceRow(t.symbol)
    IN  << t.qty > 0,
           t.qty <= max_qty,
           t.strike % 50 = 0,
           t.qty * row[2] * row[3] <= max_order_value >>

FourReasons ==
    << "Quantity must be positive", "Quantity exceeds max allowed lots",
       "Strike should be multiple of 50", "Estimated order value exceeds limit" >>

\* C15: RiskGate.check evaluates qty > 0, qty <= max lots, strike mod 50 = 0
\* and qty * lot size * premium <= max order value in this order (lot size
\* 50 and premium 200 for a symbol absent from the table); it returns Ok iff
\* all four hold, and otherwise the reason of the first check that fails.
C15_ChecksInOrder ==
    Checked =>
      /\ out["A"].risk.ok <=> \A k \in 1 .. 4 : FourChecks[k]
      /\ \A k \in 1 .. 4 :
           ( ~FourChecks[k] /\ \A j \in 1 .. (k - 1) : FourChecks[j] ) =>
             /\ ~out["A"].risk.ok
             /\ out["A"].risk.reason = FourReasons[k]

\* a trade that fails the second and the third check, for a symbol absent
\* from the table, has been rejected
C15_Witness ==
    /\ Checked
    /\ out["A"].trade.symbol = <<"X", "Y", "Z">>
    /\ FourChecks[1] /\ ~FourChecks[2] /\ ~FourChecks[3]
    /\ ~out["A"].risk.ok

(***************************************************************************)
(* Concurrency of the handler                                              *)
(***************************************************************************)
\* C16: when two commands processed concurrently both observe an
\* authentication failure on the same session, the session is renewed by
\* one re-login, not by two and not by none: one login follows the login of
\* startup and the second command reuses the session it created.
C16_OneReloginForTwoFailures ==
    ( \A h \in Handlers : Done(h) /\ AuthFailed(h) ) =>
      /\ logins = 2
      /\ \E h \in Handlers : Called(h, "_login")

\* C17: commands of one caller are processed one at a time: while the
\* reply to one command of a caller is still being sent, no other command of
\* that caller has been parsed, checked or executed.
C17_OneCommandPerCaller ==
    \A g, h \in Handlers :
      ( g # h /\ IsCommand(g) /\ IsCommand(h) /\ req[g].from = req[h].from ) =>
        ~( pc[g] = "sending" /\ pc[h] = "sending" )

(***************************************************************************)
(* Failures of the broker client                                           *)
(***************************************************************************)
\* the login of startup has been attempted and the broker rejected it
LoginRejected == logins >= 1 /\ session = "Unauthenticated"

\* C18: if the broker rejects the credentials at the initial login, startup
\* aborts: no second login is attempted, the client never becomes
\* Authenticated and no command is ever accepted or processed.
C18_RejectedLoginAborts ==
    LoginRejected =>
      /\ app = "aborted"
      /\ logins = 1
      /\ \A h \in Handlers :
           /\ pc[h] = "idle"
           /\ req[h] = NoRequest
           /\ out[h] = NoOutcome

\* the login of startup was rejected and the process is down
C18_Witness == LoginRejected /\ app = "aborted" /\ ~tokenValid

\* request h is an open order that passed the risk gate, so that
\* place_options_order has looked for the instrument token; the code has no
\* instrument master, so the token of no trading symbol can be resolved
TokenLookupFailed(h) ==
    /\ Done(h)
    /\ out[h].trade.action \in { "BUY", "SELL" }
    /\ out[h].risk.ok

\* C19: when the instrument token of an open order cannot be resolved, the
\* placement fails with one error reply to the caller and placeOrder is not
\* invoked for that command: no order goes out with a made-up or missing
\* token.
C19_UnresolvedTokenFailsOrder ==
    \A h \in Handlers : TokenLookupFailed(h) =>
      /\ Called(h, "_resolve_token")
      /\ ~Called(h, "placeOrder")
      /\ out[h].placed = << >>
      /\ Len(out[h].replies) = 1
      /\ out[h].replies[1].kind = "order_failed"
      /\ out[h].replies[1].to = req[h].from
      /\ out[h].escaped = ""

\* an order that passed the gate has failed at the token lookup
C19_Witness ==
    \E h \in Handlers :
      /\ TokenLookupFailed(h)
      /\ Called(h, "_resolve_token")
      /\ out[h].replies[1].kind = "order_failed"
      /\ out[h].replies[1].error = "Implement _resolve_token"

\* what the caller of get_positions must have received for request h: the
\* broker's list when the call succeeded, the empty sequence when the
\* broker answered without data or the call raised
ExpectedPositions(h) ==
    IF out[h].fetch = "ok" THEN positions ELSE << >>

\* C20: get_positions never raises to its caller; when the broker returns an
\* empty list or no list at all it returns the empty sequence, and in every
\* case what it returns is a sequence of positions: STATUS answers from it
\* and the squareoff commands iterate over it.
C20_GetPositionsNeverRaises ==
    \A h \in Handlers : ( Done(h) /\ Called(h, "get_positions") ) =>
      /\ out[h].fetch \in { "ok", "raise", "authfail" }
      /\ out[h].escaped = ""
      /\ Len(out[h].replies) = 1
      /\ Len(out[h].placed) <= Len(ExpectedPositions(h))
      /\ \A k \in DOMAIN out[h].placed :
           out[h].placed[k].index \in DOMAIN ExpectedPositions(h)
      /\ out[h].trade = None =>
           IF ExpectedPositions(h) = << >>
           THEN out[h].replies[1].kind = "no_positions"
           ELSE /\ out[h].replies[1].kind = "positions"
                /\ DOMAIN out[h].replies[1].lines = DOMAIN positions
                /\ \A i \in DOMAIN positions :
                     /\ out[h].replies[1].lines[i].tradingsymbol
                          = positions[i].tradingsymbol
                     /\ out[h].replies[1].lines[i].netqty = positions[i].netqty

\* STATUS has been answered after the position call raised, or came back
\* without data, at a broker that holds open positions
C20_Witness ==
    \E h \in Handlers :
      /\ Done(h) /\ Called(h, "get_positions")
      /\ out[h].trade = None
      /\ out[h].fetch \in { "raise", "authfail" }
      /\ positions # << >>
      /\ out[h].replies[1].kind = "no_positions"

(***************************************************************************)
(* What the commands do to the broker's book                               *)
(***************************************************************************)
\* the length of the run of letters a trading symbol starts with
RECURSIVE LetterRun(_)
LetterRun(ts) ==
    IF ts = << >> \/ ts[1] \notin ClassAZ THEN 0 ELSE 1 + LetterRun(Tail(ts))

\* the parts of a trading symbol such as NIFTY24DEC24000CE: underlying,
\* two digits of the year and three letters of the month, strike, type
Underlying(ts) == SubSeq(ts, 1, LetterRun(ts))
StrikeOf(ts) == PlaceSum(SubSeq(ts, LetterRun(ts) + 6, Len(ts) - 2), 1)
OptionTypeOf(ts) == SubSeq(ts, Len(ts) - 1, Len(ts))

\* C21: a squareoff-leg command for (symbol, strike, option type) closes
\* only a position of that underlying, that strike and that option type:
\* the position the prefix/suffix match selects never has another strike
\* than the one requested.
C21_LegClosesRequestedStrike ==
    \A h \in Handlers : RanSquareoffLeg(h) =>
      \A k \in DOMAIN out[h].placed :
        LET ts == out[h].placed[k].params.tradingsymbol
        IN  /\ Underlying(ts) = out[h].trade.symbol
            /\ StrikeOf(ts) = out[h].trade.strike
            /\ OptionTypeOf(ts) = out[h].trade.option_type

\* request h is of a kind that must not touch the broker's orders: not a
\* command, from a caller outside the allow-list, STATUS, a text that is no
\* command, or an open order outside the risk policy
Quiet(h) ==
    \/ ~IsCommand(h)
    \/ req[h].from \notin ALLOWED_NUMBERS
    \/ Upper(Strip(req[h].body)) = STATUS
    \/ out[h].status = "parse_error"
    \/ out[h].trade.action \in { "BUY", "SELL" } /\ ~PolicyOk(out[h].trade)

\* the broker has received an order while request h was processed
Submitted(h) == out[h].placed # << >> \/ Called(h, "placeOrder")

\* C22: unauthorised, unparseable, STATUS and risk-rejected commands leave
\* the broker's submitted orders unchanged; placeOrder is invoked only
\* while a squareoff-all, a squareoff-leg or an open order that passed the
\* risk gate is processed.
C22_OnlyTradingCommandsSubmit ==
    \A h \in Handlers : Done(h) =>
      /\ Quiet(h) => ~Submitted(h)
      /\ Submitted(h) =>
           /\ IsCommand(h)
           /\ req[h].from \in ALLOWED_NUMBERS
           /\ \/ out[h].trade.action \in { "SQUAREOFF_ALL", "SQUAREOFF_LEG" }
              \/ /\ out[h].trade.action \in { "BUY", "SELL" }
                 /\ PolicyOk(out[h].trade)

\* beside a squareoff that has submitted orders, a STATUS of the same
\* caller has been answered without submitting any
C22_Witness ==
    /\ Done("A") /\ Submitted("A")
    /\ out["A"].trade.action \in { "SQUAREOFF_ALL", "SQUAREOFF_LEG" }
    /\ Done("B") /\ Quiet("B") /\ ~Submitted("B")
    /\ req["B"].from \in ALLOWED_NUMBERS

\* a trade the gate accepted has been handed to place_options_order
Placing == pc["A"] = "sending" /\ Called("A", "place_options_order")

\* C23: for every valid symbol and every open order that passed the risk
\* gate, the quantity place_options_order computes for the broker is
\* qty * lot size with the lot size the gate used, so that the value the
\* gate bounded by the maximum order value is the estimated value of
\* exactly that quantity; an order that goes out carries this quantity.
C23_GateValuesSubmittedQuantity ==
    ( Placing /\ out["A"].trade.symbol \in VALID_SYMBOLS ) =>
      LET t == out["A"].trade
          row == ReferenceRow(t.symbol)
      IN  /\ TotalQty(t) = t.qty * row[2]
          /\ TotalQty(t) * row[3] <= max_order_value
          /\ \A k \in DOMAIN out["A"].placed :
               PlaceSum(out["A"].placed[k].params.quantity, 1) = t.qty * row[2]

\* 13 lots of BANKNIFTY have passed the gate and place_options_order has
\* computed 195 units for them
C23_Witness ==
    /\ Placing
    /\ out["A"].trade.symbol = BANKNIFTY
    /\ out["A"].trade.qty = 13
    /\ out["A"].risk.ok
    /\ TotalQty(out["A"].trade) = 195

====
